---------------------------- MODULE Spec2Model ----------------------------
(***************************************************************************)
(* Model of the execution-plan reconciliation engine of go-migrations:     *)
(* the registry (migration/registry), the execution record and its stores  *)
(* (execution, repository) and the plan and handler (handler).             *)
(*                                                                         *)
(* A migration is identified with its version.  An execution record is     *)
(* [Version, ExecutedAtMs, FinishedAtMs].  A Go pointer that may be nil is *)
(* a sequence of length 0 (nil) or 1.  An error value is the set of the    *)
(* error kinds it wraps; the empty set is the nil error.                   *)
(*                                                                         *)
(* The handler is modelled step by step: every call of a migration's       *)
(* Up/Down and every call of the store is one action, so that the order    *)
(* of these calls inside one MigrateUp/MigrateDown is observable.          *)
(***************************************************************************)
EXTENDS Integers, Sequences, FiniteSets, TLC

\* Versions of the migrations that can be registered: 1..MaxVersion.
MaxVersion == 3

\* Largest step count (NumOfRuns) a caller passes to MigrateUp/MigrateDown.
MaxRuns == 3

\* Largest number of records of an arbitrary (possibly inconsistent) history.
MaxRecords == 3

\* The clock runs from 1 to MaxTime milliseconds.
MaxTime == 2

\* Largest number of records in the store of a forced call.
MaxForceRecords == 2

\* Longest string given to NewNumOfRuns.
MaxNumLen == 3

\* The step count that "all" stands for.
AllRuns == 99999

Versions == 1..MaxVersion

\* The callers of the handler.  Under Spec only the first one issues calls.
Callers == {"c1", "c2"}

SerialCallers == {"c1"}

\* The stores: the in-memory repository and the SQL repository.
RepoKinds == {"InMemory", "Mysql"}

VARIABLES
    num,        \* the string given to NewNumOfRuns, a sequence of characters
    migrations, \* GenericRegistry.migrations: the unit registered for a version
    registered, \* the units whose Register returned nil, in the order of calls
    registry,   \* GenericRegistry.migrations: the set of registered versions
    dirEntries, \* what os.ReadDir gives for DirMigrationsRegistry.dirPath
    repoKind,   \* which Repository implementation the handler was built with
    store,      \* the persisted executions (slice / table rows)
    now,        \* time.Now().UnixMilli()
    pc,         \* per caller: position inside the running handler call
    op,         \* per caller: the running (or last) call and its argument
    plan,       \* per caller: the plan built by the call (nil pointer or plan)
    todo,       \* per caller: allToBeExec / execMigrations of the call
    idx,        \* per caller: loop index i
    cur,        \* per caller: exec, the record of the unit being handled
    ret,        \* per caller: handledMigrations, the returned result
    err,        \* per caller: the returned error
    trace,      \* per caller: Up/Down/Save/Remove calls made by the call
    failed,     \* per caller: which of these calls returned an error
    snap,       \* per caller: the store as it was when the call began
    overlapped  \* per caller: another call ran while the call was running

\* The registry: the registered versions, their units, the Register calls.
regVars == <<registry, migrations, registered, dirEntries>>

vars == <<num, regVars, repoKind, store, now, pc, op, plan, todo, idx, cur,
          ret, err, trace, failed, snap, overlapped>>

callVars == <<pc, op, plan, todo, idx, cur, ret, err, trace, failed, snap,
             overlapped>>

-----------------------------------------------------------------------------
(* Helpers on sequences *)

Min(a, b) == IF a < b THEN a ELSE b

Range(s) == {s[i] : i \in 1..Len(s)}

Reverse(s) == [i \in 1..Len(s) |-> s[Len(s) + 1 - i]]

\* Every ordering of the elements of s.
Orderings(s) ==
    {[i \in 1..Len(s) |-> s[f[i]]] : f \in Permutations(1..Len(s))}

RECURSIVE SetToSortedSeq(_)
\* The elements of a set of numbers, ascending.
SetToSortedSeq(S) ==
    IF S = {} THEN <<>>
    ELSE LET m == CHOOSE x \in S : \A y \in S : x <= y
         IN  <<m>> \o SetToSortedSeq(S \ {m})

-----------------------------------------------------------------------------
(* execution: the execution record *)

\* Variant: the record is created with its finish time already set.
StartExecutionFinished(version, t) ==
    [Version |-> version, ExecutedAtMs |-> t, FinishedAtMs |-> t]

\* The clock reading t is positive, as UnixMilli() is.
StartExecution(version, t) ==
    [Version |-> version, ExecutedAtMs |-> t, FinishedAtMs |-> 0]

Finished(execution) == execution.FinishedAtMs > 0

\* Variant: the finish time is set again on a finished record.
FinishExecutionAgain(execution, t) ==
    [execution EXCEPT !.FinishedAtMs = t]

FinishExecution(execution, t) ==
    IF ~Finished(execution)
    THEN [execution EXCEPT !.FinishedAtMs = t]
    ELSE execution

-----------------------------------------------------------------------------
(* execution, repository: the stores.  `ok` tells whether the call returns *)
(* a nil error; each operator gives the persisted executions afterwards.   *)

\* InMemoryRepository.Save appends and then returns SaveErr.
InMemorySave(st, execution, ok) == Append(st, execution)

\* InMemoryRepository.Remove filters by version and then returns RemoveErr.
InMemoryRemove(st, execution, ok) ==
    SelectSeq(st, LAMBDA e : e.Version # execution.Version)

\* Variant: a plain INSERT that adds a row whatever the table holds.
MysqlSaveInsertOnly(st, execution, ok) ==
    IF ~ok THEN st ELSE Append(st, execution)

\* Variant: the row of a version is written once and never updated.
MysqlSaveKeepsRow(st, execution, ok) ==
    IF ~ok THEN st
    ELSE IF \E i \in 1..Len(st) : st[i].Version = execution.Version
    THEN st
    ELSE Append(st, execution)

\* Variant: the row is written even when the statement returns an error.
MysqlSaveWritesOnError(st, execution, ok) ==
    IF \E i \in 1..Len(st) : st[i].Version = execution.Version
    THEN [i \in 1..Len(st) |->
            IF st[i].Version = execution.Version THEN execution ELSE st[i]]
    ELSE Append(st, execution)

\* INSERT ... ON DUPLICATE KEY UPDATE; a failed statement changes nothing.
MysqlSave(st, execution, ok) ==
    IF ~ok THEN st
    ELSE IF \E i \in 1..Len(st) : st[i].Version = execution.Version
    THEN [i \in 1..Len(st) |->
            IF st[i].Version = execution.Version THEN execution ELSE st[i]]
    ELSE Append(st, execution)

\* Variant: the statement deletes no row.
MysqlRemoveKeepsRow(st, execution, ok) == st

\* DELETE ... WHERE version = ?; a failed statement changes nothing.
MysqlRemove(st, execution, ok) ==
    IF ~ok THEN st
    ELSE SelectSeq(st, LAMBDA e : e.Version # execution.Version)

Save(kind, st, execution, ok) ==
    IF kind = "InMemory"
    THEN InMemorySave(st, execution, ok)
    ELSE MysqlSave(st, execution, ok)

\* Variant: the records of the higher versions are removed too.
RemoveFromVersionUp(kind, st, execution, ok) ==
    SelectSeq(st, LAMBDA e : e.Version < execution.Version)

Remove(kind, st, execution, ok) ==
    IF kind = "InMemory"
    THEN InMemoryRemove(st, execution, ok)
    ELSE MysqlRemove(st, execution, ok)

\* The record of a version: nil or the first one found.
FindOne(st, version) ==
    IF \E i \in 1..Len(st) : st[i].Version = version
    THEN LET i == CHOOSE j \in 1..Len(st) :
                    /\ st[j].Version = version
                    /\ \A k \in 1..(j - 1) : st[k].Version # version
         IN  <<st[i]>>
    ELSE <<>>

-----------------------------------------------------------------------------
(* migration: the registry *)

\* A migration unit: an implementation of Migration and what its Version()
\* returns.
Unit(id, version) == <<id, version>>

Version(migration) == migration[2]

\* The implementations of Migration a program registers.
UnitIds == {"a", "b"}

\* Variant: the unit registered for the version is replaced.
RegisterOverwrites(migs, migration) ==
    IF Version(migration) \in DOMAIN migs
    THEN [migrations |-> [v \in DOMAIN migs |->
                            IF v = Version(migration) THEN migration
                            ELSE migs[v]],
          err |-> {"The migration is already registered"}]
    ELSE [migrations |-> [v \in DOMAIN migs \cup {Version(migration)} |->
                            IF v = Version(migration) THEN migration
                            ELSE migs[v]],
          err |-> {}]

\* Register on the map migs: the map afterwards and the error returned.
Register(migs, migration) ==
    IF Version(migration) \in DOMAIN migs
    THEN [migrations |-> migs,
          err |-> {"The migration is already registered"}]
    ELSE [migrations |-> [v \in DOMAIN migs \cup {Version(migration)} |->
                            IF v = Version(migration) THEN migration
                            ELSE migs[v]],
          err |-> {}]

\* Get on the map: nil or the unit of the version.
GetMigration(migs, version) ==
    IF version \in DOMAIN migs THEN <<migs[version]>> ELSE <<>>

\* The orders in which a range loop can visit the values of the map.
MapIterations(migs) ==
    LET keys == SetToSortedSeq(DOMAIN migs)
    IN  Orderings([i \in 1..Len(keys) |-> migs[keys[i]]])

\* slices.Sort: the ascending arrangements of a sequence of numbers.
SortedAscending(seq) ==
    {s \in Orderings(seq) : \A i \in 1..(Len(s) - 1) : s[i] <= s[i + 1]}

\* OrderedVersions on the map: what it can return, whatever the order in
\* which the map is visited.
OrderedVersionsOf(migs) ==
    UNION {SortedAscending([i \in 1..Len(it) |-> Version(it[i])]) :
              it \in MapIterations(migs)}

\* Variant: the units are returned in the order the map was visited in.
OrderedMigrationsUnsorted(migs) == MapIterations(migs)

\* OrderedMigrations on the map: the units sorted with sort.Slice by
\* Version(), whatever the order in which the map is visited.
OrderedMigrationsOf(migs) ==
    UNION {{s \in Orderings(it) :
               \A i \in 1..(Len(s) - 1) : ~(Version(s[i + 1]) < Version(s[i]))} :
              it \in MapIterations(migs)}

Count(reg) == Cardinality(reg)

OrderedVersions(reg) == SetToSortedSeq(reg)

\* A migration is its version, so this is the same ascending sequence.
OrderedMigrations(reg) == SetToSortedSeq(reg)

\* Variant: a migration is returned for any version.
GetAnyVersion(reg, version) == <<version>>

Get(reg, version) == IF version \in reg THEN <<version>> ELSE <<>>

-----------------------------------------------------------------------------
(* handler: the execution plan *)

IsSortedByVersion(execs) ==
    \A i \in 1..(Len(execs) - 1) : execs[i].Version <= execs[i + 1].Version

\* Variant: the records are taken in the order they were loaded in.
SortedExecutionsAsLoaded(execs) == {execs}

\* Variant: the unfinished records are dropped from the slice.
SortedExecutionsFinishedOnly(execs) ==
    {s \in Orderings(SelectSeq(execs, Finished)) : IsSortedByVersion(s)}

\* sort.Slice by Version.  The sort is not stable: records of one version
\* may come out in any order.
SortedExecutions(execs) == {s \in Orderings(execs) : IsSortedByVersion(s)}

\* The check of NewPlan on the sorted executions: the kind of the error
\* returned, "" when the plan is returned.
\* Variant: the index of the last execution taken one too low.
ValidateUnfinishedOffByOne(migs, execs, i) ==
    ~Finished(execs[i]) /\ i # Len(execs) - 1

ValidateUnfinished(migs, execs, i) ==
    ~Finished(execs[i]) /\ i # Len(execs)

\* Variant: the versions are not compared.
ValidateVersionNever(migs, execs, i) == FALSE

ValidateVersion(migs, execs, i) == execs[i].Version # migs[i]

\* Variant: at the first offending index a version mismatch is reported
\* before an unfinished record.
NewPlanErrorVersionFirst(migs, execs) ==
    IF Len(execs) > Len(migs) THEN "more executions than registered migrations"
    ELSE LET bad == {i \in 1..Len(execs) :
                        \/ ValidateUnfinished(migs, execs, i)
                        \/ ValidateVersion(migs, execs, i)}
         IN  IF bad = {} THEN ""
             ELSE LET i == CHOOSE j \in bad : \A k \in bad : j <= k
                  IN  IF ValidateVersion(migs, execs, i)
                      THEN "Migrations and executions are out of order"
                      ELSE "multiple executions which are not finished"

NewPlanError(migs, execs) ==
    IF Len(execs) > Len(migs) THEN "more executions than registered migrations"
    ELSE LET bad == {i \in 1..Len(execs) :
                        \/ ValidateUnfinished(migs, execs, i)
                        \/ ValidateVersion(migs, execs, i)}
         IN  IF bad = {} THEN ""
             ELSE LET i == CHOOSE j \in bad : \A k \in bad : j <= k
                  IN  IF ValidateUnfinished(migs, execs, i)
                      THEN "multiple executions which are not finished"
                      ELSE "Migrations and executions are out of order"

ExecutionPlan(migs, execs) ==
    [orderedMigrations |-> migs, orderedExecutions |-> execs]

RegisteredMigrationsCount(p) == Len(p.orderedMigrations)

\* Variant: an unfinished last record is counted too.
FinishedExecutionsCountAll(p) == Len(p.orderedExecutions)

FinishedExecutionsCount(p) ==
    LET count == Len(p.orderedExecutions)
    IN  IF count > 0 /\ ~Finished(p.orderedExecutions[count])
        THEN count - 1
        ELSE count

\* Variant: every registered migration is to be executed.
AllToBeExecutedEverything(p) == p.orderedMigrations

\* Variant: the suffix starts after the last record, finished or not.
AllToBeExecutedAfterRecords(p) ==
    IF Len(p.orderedExecutions) < RegisteredMigrationsCount(p)
    THEN SubSeq(p.orderedMigrations, Len(p.orderedExecutions) + 1,
                Len(p.orderedMigrations))
    ELSE <<>>

AllToBeExecuted(p) ==
    LET finishedExecCount == FinishedExecutionsCount(p)
    IN  IF finishedExecCount < RegisteredMigrationsCount(p)
        THEN SubSeq(p.orderedMigrations, finishedExecCount + 1,
                    Len(p.orderedMigrations))
        ELSE <<>>

ExecutedMigration(migration, execution) ==
    [Migration |-> migration, Execution |-> execution]

\* Variant: an unfinished last record is left out.
AllExecutedFinishedOnly(p) ==
    [i \in 1..FinishedExecutionsCount(p) |->
        ExecutedMigration(<<p.orderedMigrations[i]>>,
                          <<p.orderedExecutions[i]>>)]

\* Each pair points to its own copy of the record (per-iteration loop
\* variable), as the tests of the package require.
AllExecuted(p) ==
    [i \in 1..Len(p.orderedExecutions) |->
        ExecutedMigration(<<p.orderedMigrations[i]>>,
                          <<p.orderedExecutions[i]>>)]

NextToExecute(p) ==
    LET allToBeExec == AllToBeExecuted(p)
    IN  IF Len(allToBeExec) > 0 THEN <<allToBeExec[1]>> ELSE <<>>

LastExecuted(p) ==
    LET allExec == AllExecuted(p)
    IN  IF Len(allExec) > 0 THEN allExec[Len(allExec)]
        ELSE ExecutedMigration(<<>>, <<>>)

\* Variant: after a failed load the records are validated all the same.
NewPlanValidatesAfterLoadError(reg, kind, st) ==
    {LET e == NewPlanError(OrderedMigrations(reg), s)
     IN  [plan  |-> IF e = "" THEN <<ExecutionPlan(OrderedMigrations(reg), s)>>
                    ELSE <<>>,
          err   |-> {"failed to load executions"} \cup
                        (IF e = "" THEN {} ELSE {e}),
          store |-> IF kind = "InMemory" THEN s ELSE st]
     : s \in SortedExecutions(st)}
    \cup
    {LET e == NewPlanError(OrderedMigrations(reg), s)
     IN  [plan  |-> IF e = "" THEN <<ExecutionPlan(OrderedMigrations(reg), s)>>
                    ELSE <<>>,
          err   |-> IF e = "" THEN {} ELSE {e},
          store |-> IF kind = "InMemory" THEN s ELSE st]
     : s \in SortedExecutions(st)}

\* NewPlan: every outcome it can have on the persisted executions st.
\* LoadExecutions fails or returns the records; the in-memory repository
\* returns its own slice, which sort.Slice then orders in place.
NewPlan(reg, kind, st) ==
    {[plan |-> <<>>, err |-> {"failed to load executions"}, store |-> st]}
    \cup
    {LET e == NewPlanError(OrderedMigrations(reg), s)
     IN  [plan  |-> IF e = "" THEN <<ExecutionPlan(OrderedMigrations(reg), s)>>
                    ELSE <<>>,
          err   |-> IF e = "" THEN {} ELSE {e},
          store |-> IF kind = "InMemory" THEN s ELSE st]
     : s \in SortedExecutions(st)}

-----------------------------------------------------------------------------
(* handler: the calls of MigrationsHandler, step by step *)

Event(call, version) == [call |-> call, version |-> version]

CanBegin(c) == pc[c] \in {"idle", "done"}

\* Caller c begins a call: it overlaps the calls that are running, and
\* they overlap it.
Overlap(c) ==
    overlapped' = [d \in Callers |->
        IF d = c THEN \E e \in Callers \ {c} : ~CanBegin(e)
        ELSE overlapped[d] \/ ~CanBegin(d)]

\* The call `call` of the store or of a migration returned: it is noted as
\* failed when `ok` is false.
Returned(c, call, ok) ==
    failed' = [failed EXCEPT ![c] = IF ok THEN @ ELSE @ \cup {call}]

\* The outcome `out` of NewPlan is noted: LoadExecutions failed or not.
Loaded(c, out) ==
    failed' = [failed EXCEPT ![c] =
        IF "failed to load executions" \in out.err
        THEN {"LoadExecutions"} ELSE {}]

\* No call has been made yet.
NoneFailed(c) == failed' = [failed EXCEPT ![c] = {}]

\* actualNumOfRuns of the running call.
ActualNumOfRuns(c) == Min(Len(todo[c]), op[c].numOfRuns)

\* The call returns result r and error e without touching the store again.
Return(c, r, e) ==
    /\ pc' = [pc EXCEPT ![c] = "done"]
    /\ ret' = [ret EXCEPT ![c] = r]
    /\ err' = [err EXCEPT ![c] = e]

\* A call begins: what every Begin action resets.
Begin(c, name, n) ==
    /\ CanBegin(c)
    /\ op' = [op EXCEPT ![c] = [name |-> name, numOfRuns |-> n, version |-> 0]]
    /\ snap' = [snap EXCEPT ![c] = store]
    /\ Overlap(c)
    /\ trace' = [trace EXCEPT ![c] = <<>>]
    /\ cur' = [cur EXCEPT ![c] = <<>>]
    /\ idx' = [idx EXCEPT ![c] = 0]

\* NewPlan called on its own (as the stats command and the tests do).
NewPlanCall(c) ==
    /\ Begin(c, "NewPlan", 0)
    /\ \E out \in NewPlan(registry, repoKind, store) :
          /\ store' = out.store
          /\ plan' = [plan EXCEPT ![c] = out.plan]
          /\ todo' = [todo EXCEPT ![c] = <<>>]
          /\ Loaded(c, out)
          /\ Return(c, <<>>, out.err)
    /\ UNCHANGED <<num, regVars, repoKind, now>>

\* The plan builders NewHandler can be given: none (nil) or one of the
\* caller's own.
Builders == {"nil", "custom"}

\* The MigrationsHandler struct: registry, repository, newExecutionPlan.
Handler(reg, kind, builder) == <<reg, kind, builder>>

\* Variant: Init drops the rows it finds.
RepositoryInitEmpties(kind, st, ok) == <<>>

\* Repository.Init: CREATE TABLE IF NOT EXISTS, or the InitErr of the
\* in-memory repository; the rows persisted are left as they are.
RepositoryInit(kind, st, ok) == st

\* Variant: the error of Init is dropped and the handler returned.
NewHandlerAlways(reg, kind, builder, initOk) ==
    <<<<Handler(reg, kind, IF builder = "nil" THEN "NewPlan" ELSE builder)>>,
      {}>>

\* NewHandler: the pair of the handler (nil or one handler) and the error.
NewHandler(reg, kind, builder, initOk) ==
    IF ~initOk
    THEN <<<<>>, {"could not create new migrations handler", "init"}>>
    ELSE <<<<Handler(reg, kind, IF builder = "nil" THEN "NewPlan" ELSE builder)>>,
           {}>>

\* A call of NewHandler on the registry and the store.
NewHandlerCall(c, builder) ==
    /\ CanBegin(c)
    /\ op' = [op EXCEPT ![c] =
          [name |-> "NewHandler", numOfRuns |-> 0, version |-> 0]]
    /\ snap' = [snap EXCEPT ![c] = store]
    /\ Overlap(c)
    /\ cur' = [cur EXCEPT ![c] = <<>>]
    /\ idx' = [idx EXCEPT ![c] = 0]
    /\ \E initOk \in BOOLEAN :
          LET out == NewHandler(registry, repoKind, builder, initOk)
          IN  /\ store' = RepositoryInit(repoKind, store, initOk)
              /\ trace' = [trace EXCEPT ![c] = <<Event("Init", 0)>>]
              /\ failed' = [failed EXCEPT ![c] =
                    IF initOk THEN {} ELSE {"Init"}]
              /\ pc' = [pc EXCEPT ![c] = "done"]
              /\ ret' = [ret EXCEPT ![c] = out[1]]
              /\ err' = [err EXCEPT ![c] = out[2]]
    /\ plan' = [plan EXCEPT ![c] = <<>>]
    /\ todo' = [todo EXCEPT ![c] = <<>>]
    /\ UNCHANGED <<num, regVars, repoKind, now>>

\* Variant: the registry is never taken for empty.
NothingRegisteredNever(reg) == FALSE

\* The first test of MigrateUp: the registry holds no migration.
NothingRegistered(reg) == Count(reg) = 0

\* MigrateUp up to the loop: the registry check, the plan, the work list.
MigrateUpBegin(c, n) ==
    /\ Begin(c, "MigrateUp", n)
    /\ IF NothingRegistered(registry)
       THEN /\ plan' = [plan EXCEPT ![c] = <<>>]
            /\ todo' = [todo EXCEPT ![c] = <<>>]
            /\ Return(c, <<>>, {})
            /\ NoneFailed(c)
            /\ UNCHANGED store
       ELSE \E out \in NewPlan(registry, repoKind, store) :
              /\ store' = out.store
              /\ Loaded(c, out)
              /\ plan' = [plan EXCEPT ![c] = out.plan]
              /\ IF out.err # {}
                 THEN /\ todo' = [todo EXCEPT ![c] = <<>>]
                      /\ Return(c, <<>>, out.err)
                 ELSE LET allToBeExec == AllToBeExecuted(out.plan[1])
                      IN  /\ todo' = [todo EXCEPT ![c] = allToBeExec]
                          /\ IF Min(Len(allToBeExec), n) > 0
                             THEN /\ pc' = [pc EXCEPT ![c] = "up"]
                                  /\ ret' = [ret EXCEPT ![c] = <<>>]
                                  /\ err' = [err EXCEPT ![c] = {}]
                             ELSE Return(c, <<>>, {})
    /\ UNCHANGED <<num, regVars, repoKind, now>>

\* Variant: the loop ends on an error of Up only.
MustBreakOnUpErrorOnly(upErr, saveOk) == upErr # {}

\* Variant: the loop ends on a Save error only.
MustBreakOnSaveErrorOnly(upErr, saveOk) == ~saveOk

\* Variant: the loop goes on to the next unit after an error.
MustBreakNever(upErr, saveOk) == FALSE

\* The test that ends the loop of MigrateUp after Save.
MustBreak(upErr, saveOk) == upErr # {} \/ ~saveOk

\* Variant: the unit to run is the first one pending in the store as it is
\* now, if there is one.
MigrationToExecFromStore(c) ==
    LET pending == SetToSortedSeq({v \in registry :
            ~\E i \in 1..Len(store) :
                store[i].Version = v /\ Finished(store[i])})
    IN  IF pending # <<>> THEN pending[1] ELSE todo[c][idx[c] + 1]

\* The unit of the pass: the i-th of the work list fixed when the call began.
MigrationToExec(c) == todo[c][idx[c] + 1]

\* Variant: the started record is written before Up is called.
StoreWhileUpStarted(kind, st, started) == Save(kind, st, started, TRUE)

\* The store while Up runs: nothing is written before Up has returned.
StoreWhileUp(kind, st, started) == st

\* One pass of the loop up to Save: StartExecution, Up, FinishExecution.
MigrateUpRun(c) ==
    /\ pc[c] = "up"
    /\ \E upOk \in BOOLEAN :
          LET migrationToExec == MigrationToExec(c)
              started == StartExecution(migrationToExec, now)
              exec == IF upOk THEN FinishExecution(started, now) ELSE started
          IN  /\ cur' = [cur EXCEPT ![c] = <<exec>>]
              /\ err' = [err EXCEPT ![c] = IF upOk THEN {} ELSE {"up"}]
              /\ ret' = [ret EXCEPT ![c] =
                    Append(@, ExecutedMigration(<<migrationToExec>>, <<exec>>))]
              /\ trace' = [trace EXCEPT ![c] =
                    Append(@, Event("Up", migrationToExec))]
              /\ Returned(c, "Up", upOk)
              /\ store' = StoreWhileUp(repoKind, store, started)
    /\ pc' = [pc EXCEPT ![c] = "up_save"]
    /\ UNCHANGED <<num, regVars, repoKind, now, op, plan, todo, idx, snap,
                   overlapped>>

\* The rest of the pass: Save, then break, the next pass or the return.
MigrateUpSave(c) ==
    /\ pc[c] = "up_save"
    /\ \E saveOk \in BOOLEAN :
          /\ store' = Save(repoKind, store, cur[c][1], saveOk)
          /\ Returned(c, "Save", saveOk)
          /\ IF MustBreak(err[c], saveOk)
             THEN /\ err' = [err EXCEPT ![c] =
                        @ \cup (IF saveOk THEN {} ELSE {"save"})]
                  /\ pc' = [pc EXCEPT ![c] = "done"]
                  /\ UNCHANGED idx
             ELSE /\ idx' = [idx EXCEPT ![c] = @ + 1]
                  /\ pc' = [pc EXCEPT ![c] =
                        IF idx[c] + 1 < ActualNumOfRuns(c) THEN "up" ELSE "done"]
                  /\ UNCHANGED err
    /\ trace' = [trace EXCEPT ![c] = Append(@, Event("Save", cur[c][1].Version))]
    /\ UNCHANGED <<num, regVars, repoKind, now, op, plan, todo, cur, ret, snap,
                   overlapped>>

\* Variant: the work list is not reversed.
ExecMigrationsOldestFirst(p) == AllExecuted(p)

\* Variant: only the finished records are rolled back.
ExecMigrationsFinishedOnly(p) ==
    Reverse(SubSeq(AllExecuted(p), 1, FinishedExecutionsCount(p)))

\* The work list of MigrateDown: AllExecuted, most recent first.
ExecMigrations(p) == Reverse(AllExecuted(p))

\* Variant: the failed unit is reported with its execution record.
FailedEntryWithExecution(execMig) == execMig

\* The entry MigrateDown reports for the unit whose Down or Remove failed.
FailedEntry(execMig) == ExecutedMigration(execMig.Migration, <<>>)

\* MigrateDown up to the loop: the plan and the reversed work list.
MigrateDownBegin(c, n) ==
    /\ Begin(c, "MigrateDown", n)
    /\ \E out \in NewPlan(registry, repoKind, store) :
          /\ store' = out.store
          /\ Loaded(c, out)
          /\ plan' = [plan EXCEPT ![c] = out.plan]
          /\ IF out.err # {}
             THEN /\ todo' = [todo EXCEPT ![c] = <<>>]
                  /\ Return(c, <<>>, out.err)
             ELSE LET execMigrations == ExecMigrations(out.plan[1])
                  IN  /\ todo' = [todo EXCEPT ![c] = execMigrations]
                      /\ IF Min(Len(execMigrations), n) > 0
                         THEN /\ pc' = [pc EXCEPT ![c] = "down"]
                              /\ ret' = [ret EXCEPT ![c] = <<>>]
                              /\ err' = [err EXCEPT ![c] = {}]
                         ELSE Return(c, <<>>, {})
    /\ UNCHANGED <<num, regVars, repoKind, now>>

\* One pass of the loop up to Remove: the call of Down.
MigrateDownRun(c) ==
    /\ pc[c] = "down"
    /\ \E downOk \in BOOLEAN :
          LET execMig == todo[c][idx[c] + 1]
          IN  /\ trace' = [trace EXCEPT ![c] =
                    Append(@, Event("Down", execMig.Migration[1]))]
              /\ Returned(c, "Down", downOk)
              /\ IF downOk
                 THEN /\ pc' = [pc EXCEPT ![c] = "down_remove"]
                      /\ UNCHANGED <<ret, err>>
                 ELSE /\ pc' = [pc EXCEPT ![c] = "done"]
                      /\ err' = [err EXCEPT ![c] = {"down"}]
                      /\ ret' = [ret EXCEPT ![c] =
                            Append(@, FailedEntry(execMig))]
    /\ UNCHANGED <<num, regVars, repoKind, store, now, op, plan, todo, idx, cur,
                   snap,
                   overlapped>>

\* The rest of the pass: Remove, then break, the next pass or the return.
MigrateDownRemove(c) ==
    /\ pc[c] = "down_remove"
    /\ \E removeOk \in BOOLEAN :
          LET execMig == todo[c][idx[c] + 1]
          IN  /\ store' = Remove(repoKind, store, execMig.Execution[1], removeOk)
              /\ trace' = [trace EXCEPT ![c] =
                    Append(@, Event("Remove", execMig.Execution[1].Version))]
              /\ Returned(c, "Remove", removeOk)
              /\ IF removeOk
                 THEN /\ ret' = [ret EXCEPT ![c] = Append(@, execMig)]
                      /\ idx' = [idx EXCEPT ![c] = @ + 1]
                      /\ pc' = [pc EXCEPT ![c] =
                            IF idx[c] + 1 < ActualNumOfRuns(c)
                            THEN "down" ELSE "done"]
                      /\ UNCHANGED err
                 ELSE /\ ret' = [ret EXCEPT ![c] =
                            Append(@, FailedEntry(execMig))]
                      /\ err' = [err EXCEPT ![c] = {"remove"}]
                      /\ pc' = [pc EXCEPT ![c] = "done"]
                      /\ UNCHANGED idx
    /\ UNCHANGED <<num, regVars, repoKind, now, op, plan, todo, cur, snap,
                   overlapped>>

\* What ForceUp and ForceDown do before anything else: no plan is built.
BeginForce(c, name, version) ==
    /\ CanBegin(c)
    /\ op' = [op EXCEPT ![c] =
            [name |-> name, numOfRuns |-> 0, version |-> version]]
    /\ snap' = [snap EXCEPT ![c] = store]
    /\ Overlap(c)
    /\ plan' = [plan EXCEPT ![c] = <<>>]
    /\ todo' = [todo EXCEPT ![c] = <<>>]
    /\ idx' = [idx EXCEPT ![c] = 0]

\* Variant: the record is finished whatever Up returned.
ForceUpExecAlwaysFinished(migrationToExec, t, upOk) ==
    FinishExecution(StartExecution(migrationToExec, t), t)

\* The record of ForceUp after Up: started, finished if Up returned nil.
ForceUpExec(migrationToExec, t, upOk) ==
    IF upOk
    THEN FinishExecution(StartExecution(migrationToExec, t), t)
    ELSE StartExecution(migrationToExec, t)

\* Variant: the error of Save is dropped when Up failed.
ForceUpErrorActionOnly(upErr, saveOk) ==
    IF upErr = {} THEN (IF saveOk THEN {} ELSE {"save"}) ELSE upErr

\* The error ForceUp returns from the error of Up and that of Save.
ForceUpError(upErr, saveOk) ==
    IF upErr = {} THEN (IF saveOk THEN {} ELSE {"save"})
    ELSE IF ~saveOk THEN upErr \cup {"save"}
    ELSE upErr

\* ForceUp up to Save: the registry lookup, StartExecution, Up.  The
\* in-memory repository grows with every Save: it is forced up only while
\* it holds fewer than MaxForceRecords records.
ForceUpBegin(c, version) ==
    /\ BeginForce(c, "ForceUp", version)
    /\ LET migrationToExec == Get(registry, version)
       IN  IF migrationToExec = <<>>
           THEN /\ Return(c, ExecutedMigration(<<>>, <<>>), {})
                /\ cur' = [cur EXCEPT ![c] = <<>>]
                /\ trace' = [trace EXCEPT ![c] = <<>>]
                /\ NoneFailed(c)
           ELSE /\ repoKind = "InMemory" => Len(store) < MaxForceRecords
                /\ \E upOk \in BOOLEAN :
                      LET exec == ForceUpExec(migrationToExec[1], now, upOk)
                      IN  /\ cur' = [cur EXCEPT ![c] = <<exec>>]
                          /\ err' = [err EXCEPT ![c] =
                                IF upOk THEN {} ELSE {"up"}]
                          /\ ret' = [ret EXCEPT ![c] =
                                ExecutedMigration(migrationToExec, <<exec>>)]
                          /\ failed' = [failed EXCEPT ![c] =
                                IF upOk THEN {} ELSE {"Up"}]
                /\ trace' = [trace EXCEPT ![c] =
                      <<Event("Up", migrationToExec[1])>>]
                /\ pc' = [pc EXCEPT ![c] = "force_save"]
    /\ UNCHANGED <<num, regVars, repoKind, store, now>>

\* The rest of ForceUp: Save and the joined error.
ForceUpSave(c) ==
    /\ pc[c] = "force_save"
    /\ \E saveOk \in BOOLEAN :
          /\ store' = Save(repoKind, store, cur[c][1], saveOk)
          /\ Returned(c, "Save", saveOk)
          /\ err' = [err EXCEPT ![c] = ForceUpError(err[c], saveOk)]
    /\ trace' = [trace EXCEPT ![c] = Append(@, Event("Save", cur[c][1].Version))]
    /\ pc' = [pc EXCEPT ![c] = "done"]
    /\ UNCHANGED <<num, regVars, repoKind, now, op, plan, todo, idx, cur, ret,
                   snap,
                   overlapped>>

\* Variant: a version without a record is rolled back all the same.
ExecNotFoundNever(exec) == FALSE

\* The test of ForceDown on the record FindOne returned.
ExecNotFound(exec) == exec = <<>>

\* ForceDown up to Down: the registry lookup and FindOne.
ForceDownBegin(c, version) ==
    /\ BeginForce(c, "ForceDown", version)
    /\ LET migrationToExec == Get(registry, version)
       IN  IF migrationToExec = <<>>
           THEN /\ Return(c, ExecutedMigration(<<>>, <<>>), {})
                /\ cur' = [cur EXCEPT ![c] = <<>>]
                /\ trace' = [trace EXCEPT ![c] = <<>>]
                /\ NoneFailed(c)
           ELSE /\ trace' = [trace EXCEPT ![c] = <<Event("FindOne", version)>>]
                /\ \E findOk \in BOOLEAN :
                      LET exec == FindOne(store, version)
                      IN  /\ failed' = [failed EXCEPT ![c] =
                                IF findOk THEN {} ELSE {"FindOne"}]
                          /\ IF ~findOk
                             THEN /\ Return(c, ExecutedMigration(
                                                migrationToExec, <<>>),
                                            {"failed to load execution"})
                                  /\ cur' = [cur EXCEPT ![c] = <<>>]
                             ELSE IF ExecNotFound(exec)
                             THEN /\ Return(c, ExecutedMigration(
                                                migrationToExec, <<>>),
                                            {"execution not found"})
                                  /\ cur' = [cur EXCEPT ![c] = <<>>]
                             ELSE /\ cur' = [cur EXCEPT ![c] = exec]
                                  /\ pc' = [pc EXCEPT ![c] = "force_down"]
                                  /\ ret' = [ret EXCEPT ![c] = <<>>]
                                  /\ err' = [err EXCEPT ![c] = {}]
    /\ UNCHANGED <<num, regVars, repoKind, store, now>>

\* Variant: the record is removed even though Down failed.
ForceDownStopsNever(downOk) == FALSE

\* ForceDown returns after Down when Down returned an error.
ForceDownStops(downOk) == ~downOk

\* The call of Down in ForceDown.
ForceDownRun(c) ==
    /\ pc[c] = "force_down"
    /\ LET migrationToExec == Get(registry, op[c].version)
       IN  /\ trace' = [trace EXCEPT ![c] =
                 Append(@, Event("Down", migrationToExec[1]))]
           /\ \E downOk \in BOOLEAN :
                 /\ Returned(c, "Down", downOk)
                 /\ IF ForceDownStops(downOk)
                    THEN Return(c, ExecutedMigration(migrationToExec, <<>>),
                                {"down"})
                    ELSE /\ pc' = [pc EXCEPT ![c] = "force_remove"]
                         /\ err' = [err EXCEPT ![c] =
                               IF downOk THEN {} ELSE {"down"}]
                         /\ UNCHANGED ret
    /\ UNCHANGED <<num, regVars, repoKind, store, now, op, plan, todo, idx,
                   cur, snap,
                   overlapped>>

\* The rest of ForceDown: Remove, whose error is the one returned.
ForceDownRemove(c) ==
    /\ pc[c] = "force_remove"
    /\ LET migrationToExec == Get(registry, op[c].version)
       IN  \E removeOk \in BOOLEAN :
             /\ store' = Remove(repoKind, store, cur[c][1], removeOk)
             /\ Returned(c, "Remove", removeOk)
             /\ Return(c, ExecutedMigration(migrationToExec, cur[c]),
                       IF removeOk THEN {} ELSE {"remove"})
    /\ trace' = [trace EXCEPT ![c] =
          Append(@, Event("Remove", cur[c][1].Version))]
    /\ UNCHANGED <<num, regVars, repoKind, now, op, plan, todo, idx, cur,
                   snap,
                   overlapped>>

-----------------------------------------------------------------------------
(* handler: NewNumOfRuns.  A string is the sequence of its characters. *)

\* The characters the strings given to NewNumOfRuns are made of.
Chars == {"a", "l", " ", "-", "+", "0", "1", "7"}

Digit == "0" :> 0 @@ "1" :> 1 @@ "2" :> 2 @@ "3" :> 3 @@ "4" :> 4 @@
         "5" :> 5 @@ "6" :> 6 @@ "7" :> 7 @@ "8" :> 8 @@ "9" :> 9

\* unicode.IsSpace on the characters above.
IsSpace(ch) == ch = " "

\* strings.TrimSpace: the string without its leading and trailing spaces.
TrimSpace(str) ==
    LET keep == {i \in 1..Len(str) : ~IsSpace(str[i])}
    IN  IF keep = {} THEN <<>>
        ELSE SubSeq(str, CHOOSE i \in keep : \A j \in keep : i <= j,
                         CHOOSE i \in keep : \A j \in keep : j <= i)

RECURSIVE DigitsValue(_)
\* The number a sequence of decimal digits writes.
DigitsValue(ds) ==
    IF ds = <<>> THEN 0
    ELSE 10 * DigitsValue(SubSeq(ds, 1, Len(ds) - 1)) + Digit[ds[Len(ds)]]

\* strconv.Atoi on strings short enough not to overflow an int: an
\* optional sign, then one or more decimal digits, and nothing else.
Atoi(str) ==
    LET signed == str # <<>> /\ str[1] \in {"+", "-"}
        ds == IF signed THEN Tail(str) ELSE str
    IN  IF ds # <<>> /\ \A i \in 1..Len(ds) : ds[i] \in DOMAIN Digit
        THEN [n   |-> IF signed /\ str[1] = "-" THEN 0 - DigitsValue(ds)
                      ELSE DigitsValue(ds),
              err |-> {}]
        ELSE [n |-> 0, err |-> {"invalid syntax"}]

\* Variant: a parsed number is returned as it is.
NewNumOfRunsUnclamped(str) ==
    LET text == IF str = <<"a", "l", "l">> THEN <<"9", "9", "9", "9", "9">>
                ELSE IF Len(TrimSpace(str)) = 0 THEN <<"1">>
                ELSE str
        parsed == Atoi(text)
    IN  IF parsed.err # {}
        THEN [n |-> 1, err |-> {"failed to build new num of runs"}]
        ELSE [n |-> parsed.n, err |-> {}]

NewNumOfRuns(str) ==
    LET text == IF str = <<"a", "l", "l">> THEN <<"9", "9", "9", "9", "9">>
                ELSE IF Len(TrimSpace(str)) = 0 THEN <<"1">>
                ELSE str
        parsed == Atoi(text)
    IN  IF parsed.err # {}
        THEN [n |-> 1, err |-> {"failed to build new num of runs"}]
        ELSE [n |-> IF parsed.n <= 0 THEN 1 ELSE parsed.n, err |-> {}]

\* The steps argument of a command is turned into a step count.
NewNumOfRunsCall(c) ==
    /\ CanBegin(c)
    /\ LET out == NewNumOfRuns(num)
       IN  /\ op' = [op EXCEPT ![c] = [name |-> "NewNumOfRuns",
                                       numOfRuns |-> out.n, version |-> 0]]
           /\ Return(c, <<>>, out.err)
    /\ UNCHANGED <<num, regVars, repoKind, store, now, plan, todo, idx, cur,
                   trace, failed, snap,
                   overlapped>>

\* A program registers a unit.
RegisterCall(c, migration) ==
    /\ CanBegin(c)
    /\ LET out == Register(migrations, migration)
       IN  /\ migrations' = out.migrations
           /\ registry' = DOMAIN out.migrations
           /\ registered' = IF out.err = {} THEN Append(registered, migration)
                            ELSE registered
           /\ Return(c, <<>>, out.err)
    /\ op' = [op EXCEPT ![c] = [name |-> "Register", numOfRuns |-> 0,
                                version |-> Version(migration)]]
    /\ UNCHANGED <<num, dirEntries, repoKind, store, now, plan, todo, idx, cur,
                   trace, failed, snap, overlapped>>

\* The most calls of FinishExecution made on one record.
MaxFinishCalls == 2

\* StartExecution called on its own (as the tests do) for a registered
\* migration: the record is kept in cur.  The call reads the clock, which
\* has not gone back since it was last read.
StartExecutionCall(c, version) ==
    /\ CanBegin(c)
    /\ Get(registry, version) # <<>>
    /\ op' = [op EXCEPT ![c] =
          [name |-> "StartExecution", numOfRuns |-> 0, version |-> version]]
    /\ \E t \in now..MaxTime :
          /\ now' = t
          /\ cur' = [cur EXCEPT ![c] = <<StartExecution(version, t)>>]
    /\ trace' = [trace EXCEPT ![c] = <<Event("StartExecution", version)>>]
    /\ snap' = [snap EXCEPT ![c] = store]
    /\ Overlap(c)
    /\ NoneFailed(c)
    /\ idx' = [idx EXCEPT ![c] = 0]
    /\ plan' = [plan EXCEPT ![c] = <<>>]
    /\ todo' = [todo EXCEPT ![c] = <<>>]
    /\ Return(c, <<>>, {})
    /\ UNCHANGED <<num, regVars, repoKind, store>>

\* FinishExecution called on the record StartExecution returned.
FinishExecutionCall(c) ==
    /\ CanBegin(c)
    /\ op[c].name \in {"StartExecution", "FinishExecution"}
    /\ Len(trace[c]) <= MaxFinishCalls
    /\ op' = [op EXCEPT ![c].name = "FinishExecution"]
    /\ \E t \in now..MaxTime :
          /\ now' = t
          /\ cur' = [cur EXCEPT ![c] = <<FinishExecution(cur[c][1], t)>>]
    /\ trace' = [trace EXCEPT ![c] =
          Append(@, Event("FinishExecution", cur[c][1].Version))]
    /\ UNCHANGED <<num, regVars, repoKind, store, pc, plan, todo, idx, ret,
                   err, failed, snap, overlapped>>

-----------------------------------------------------------------------------
(* migration: the registry of a directory.  A file name is the sequence   *)
(* of its characters; a directory entry is the pair of its name and of    *)
(* whether it is a directory.                                              *)

FileNamePrefix == <<"v", "e", "r", "s", "i", "o", "n">>

FileNameSeparator == <<"_">>

GoExtension == <<".", "g", "o">>

DirEntry(name, isDir) == <<name, isDir>>

Name(item) == item[1]

IsDir(item) == item[2]

\* strings.HasPrefix.
HasPrefix(str, prefix) ==
    /\ Len(str) >= Len(prefix)
    /\ SubSeq(str, 1, Len(prefix)) = prefix

\* strings.TrimLeft: the string without its leading characters that are
\* in the cutset.
TrimLeft(str, cutset) ==
    LET keep == {i \in 1..Len(str) : str[i] \notin Range(cutset)}
    IN  IF keep = {} THEN <<>>
        ELSE SubSeq(str, CHOOSE i \in keep : \A j \in keep : i <= j, Len(str))

\* strings.TrimRight: the string without its trailing characters that are
\* in the cutset.
TrimRight(str, cutset) ==
    LET keep == {i \in 1..Len(str) : str[i] \notin Range(cutset)}
    IN  IF keep = {} THEN <<>>
        ELSE SubSeq(str, 1, CHOOSE i \in keep : \A j \in keep : j <= i)

\* strconv.Itoa of a number that is not negative.
RECURSIVE Itoa(_)
Itoa(n) ==
    LET last == <<CHOOSE ch \in DOMAIN Digit : Digit[ch] = n % 10>>
    IN  IF n < 10 THEN last ELSE Itoa(n \div 10) \o last

\* The version the loop of HasAllMigrationsRegistered reads in a directory
\* entry: none (the entry is skipped) or one number.
EntryVersion(item) ==
    IF IsDir(item) \/ ~HasPrefix(Name(item), FileNamePrefix \o FileNameSeparator)
    THEN <<>>
    ELSE LET fname == TrimLeft(Name(item), FileNamePrefix \o FileNameSeparator)
             parsed == Atoi(TrimRight(fname, GoExtension))
         IN  IF parsed.err # {} THEN <<>> ELSE <<parsed.n>>

\* The loop over the directory entries from entry i on: the versions left
\* in registeredCopy and the names appended to missing.
RECURSIVE ScanEntries(_, _, _, _)
ScanEntries(entries, i, registeredCopy, missing) ==
    IF i > Len(entries) THEN <<registeredCopy, missing>>
    ELSE LET version == EntryVersion(entries[i])
         IN  IF version = <<>>
             THEN ScanEntries(entries, i + 1, registeredCopy, missing)
             ELSE IF version[1] \in registeredCopy
             THEN ScanEntries(entries, i + 1, registeredCopy \ {version[1]},
                              missing)
             ELSE ScanEntries(entries, i + 1, registeredCopy,
                              Append(missing, Name(entries[i])))

\* HasAllMigrationsRegistered: every outcome <<allRegistered, missing,
\* extra, err>> it can have.  The map registeredCopy is ranged over in any
\* order.
HasAllMigrationsRegistered(reg, entries) ==
    {<<FALSE, <<>>, <<>>, {"Dir entries read failed"}>>}
    \cup
    LET scanned == ScanEntries(entries, 1, reg, <<>>)
        missing == scanned[2]
    IN  {<<Len(missing) = 0 /\ Len(extra) = 0, missing, extra, {}>> :
            extra \in Orderings(
                [i \in 1..Cardinality(scanned[1]) |->
                    FileNamePrefix \o FileNameSeparator
                        \o Itoa(SetToSortedSeq(scanned[1])[i]) \o GoExtension])}

\* A call of HasAllMigrationsRegistered.
HasAllMigrationsRegisteredCall(c) ==
    /\ CanBegin(c)
    /\ op' = [op EXCEPT ![c] =
          [name |-> "HasAllMigrationsRegistered", numOfRuns |-> 0, version |-> 0]]
    /\ \E out \in HasAllMigrationsRegistered(registry, dirEntries) :
          /\ ret' = [ret EXCEPT ![c] = <<out[1], out[2], out[3]>>]
          /\ err' = [err EXCEPT ![c] = out[4]]
          /\ failed' = [failed EXCEPT ![c] =
                IF out[4] = {} THEN {} ELSE {"ReadDir"}]
    /\ trace' = [trace EXCEPT ![c] = <<Event("ReadDir", 0)>>]
    /\ pc' = [pc EXCEPT ![c] = "done"]
    /\ snap' = [snap EXCEPT ![c] = store]
    /\ Overlap(c)
    /\ cur' = [cur EXCEPT ![c] = <<>>]
    /\ idx' = [idx EXCEPT ![c] = 0]
    /\ plan' = [plan EXCEPT ![c] = <<>>]
    /\ todo' = [todo EXCEPT ![c] = <<>>]
    /\ UNCHANGED <<num, regVars, repoKind, store, now>>

\* AssertValidRegistry: the error it panics with, none when it returns.
AssertValidRegistry(out) ==
    IF out[4] # {} THEN {"registry has invalid state"} \cup out[4]
    ELSE IF ~out[1] THEN {"registry has invalid state"}
    ELSE {}

\* A call of AssertValidRegistry, as NewDirMigrationsRegistry makes once
\* it has registered the migrations it was given.
AssertValidRegistryCall(c) ==
    /\ CanBegin(c)
    /\ op' = [op EXCEPT ![c] =
          [name |-> "AssertValidRegistry", numOfRuns |-> 0, version |-> 0]]
    /\ \E out \in HasAllMigrationsRegistered(registry, dirEntries) :
          /\ ret' = [ret EXCEPT ![c] = <<out[1], out[2], out[3]>>]
          /\ err' = [err EXCEPT ![c] = AssertValidRegistry(out)]
          /\ failed' = [failed EXCEPT ![c] =
                IF out[4] = {} THEN {} ELSE {"ReadDir"}]
    /\ trace' = [trace EXCEPT ![c] = <<Event("ReadDir", 0)>>]
    /\ pc' = [pc EXCEPT ![c] = "done"]
    /\ snap' = [snap EXCEPT ![c] = store]
    /\ Overlap(c)
    /\ cur' = [cur EXCEPT ![c] = <<>>]
    /\ idx' = [idx EXCEPT ![c] = 0]
    /\ plan' = [plan EXCEPT ![c] = <<>>]
    /\ todo' = [todo EXCEPT ![c] = <<>>]
    /\ UNCHANGED <<num, regVars, repoKind, store, now>>

\* Time passes.
Tick ==
    /\ now < MaxTime
    /\ now' = now + 1
    /\ UNCHANGED <<num, regVars, repoKind, store, callVars>>

-----------------------------------------------------------------------------
(* cli: the up and down commands *)

\* The steps value of a command line that gives none.
DefaultSteps == <<"1">>

\* Variant: no steps value is refused.
StepsRejectedNever(out) == FALSE

\* The command refuses the steps value: NewNumOfRuns returned an error.
StepsRejected(out) == out.err # {}

\* The up command runs with the steps value num: the value is turned into
\* a step count first; when that fails the error is printed and returned,
\* otherwise MigrateUp is called with the count.
MigrateUpCommandExec(c) ==
    LET out == NewNumOfRuns(num)
    IN  IF StepsRejected(out)
        THEN /\ Begin(c, "up", 0)
             /\ Return(c, <<>>, out.err)
             /\ NoneFailed(c)
             /\ UNCHANGED <<num, regVars, repoKind, store, now, plan, todo>>
        ELSE MigrateUpBegin(c, out.n)

\* The down command runs with the steps value num, in the same way.
MigrateDownCommandExec(c) ==
    LET out == NewNumOfRuns(num)
    IN  IF StepsRejected(out)
        THEN /\ Begin(c, "down", 0)
             /\ Return(c, <<>>, out.err)
             /\ NoneFailed(c)
             /\ UNCHANGED <<num, regVars, repoKind, store, now, plan, todo>>
        ELSE MigrateDownBegin(c, out.n)

-----------------------------------------------------------------------------
(* Specifications *)

\* A record as a test fixture or an earlier run left it.
FinishedRecord(v) == [Version |-> v, ExecutedAtMs |-> 1, FinishedAtMs |-> 1]

UnfinishedRecord(v) == [Version |-> v, ExecutedAtMs |-> 1, FinishedAtMs |-> 0]

\* The histories NewPlan accepts for a registry: a prefix of its versions,
\* all finished except possibly the last one, in ascending order.
ConsistentHistories(reg) ==
    LET migs == OrderedMigrations(reg)
    IN  {[i \in 1..k |-> FinishedRecord(migs[i])] : k \in 0..Len(migs)}
        \cup
        {[i \in 1..k |-> IF i = k THEN UnfinishedRecord(migs[i])
                         ELSE FinishedRecord(migs[i])] : k \in 1..Len(migs)}

\* Any history of at most MaxRecords records; a table has one row a version.
RECURSIVE Histories(_)
Histories(n) ==
    IF n = 0 THEN {<<>>}
    ELSE Histories(n - 1) \cup
         {Append(h, r) : h \in {g \in Histories(n - 1) : Len(g) = n - 1},
                         r \in {FinishedRecord(v) : v \in Versions} \cup
                               {UnfinishedRecord(v) : v \in Versions}}

HasOneRowPerVersion(st) ==
    \A i, j \in 1..Len(st) : st[i].Version = st[j].Version => i = j

\* The registered versions were registered in ascending order, one unit
\* each.
RegisteredAscending ==
    /\ migrations = [v \in registry |-> Unit("a", v)]
    /\ registered = [i \in 1..Count(registry) |->
                        Unit("a", OrderedVersions(registry)[i])]

\* A generic registry: no directory is looked at.
InitUnits ==
    /\ RegisteredAscending
    /\ dirEntries = <<>>

InitCalls ==
    /\ pc = [c \in Callers |-> "idle"]
    /\ op = [c \in Callers |-> [name |-> "", numOfRuns |-> 0, version |-> 0]]
    /\ plan = [c \in Callers |-> <<>>]
    /\ todo = [c \in Callers |-> <<>>]
    /\ idx = [c \in Callers |-> 0]
    /\ cur = [c \in Callers |-> <<>>]
    /\ ret = [c \in Callers |-> <<>>]
    /\ err = [c \in Callers |-> {}]
    /\ trace = [c \in Callers |-> <<>>]
    /\ failed = [c \in Callers |-> {}]
    /\ overlapped = [c \in Callers |-> FALSE]
    /\ snap = [c \in Callers |-> <<>>]

\* The handler on a history left by earlier runs.
Init ==
    /\ registry \in SUBSET Versions
    /\ repoKind \in RepoKinds
    /\ store \in ConsistentHistories(registry)
    /\ now = 1
    /\ num = <<>>
    /\ InitUnits
    /\ InitCalls

Next ==
    \/ Tick
    \/ \E c \in SerialCallers :
        \/ \E n \in 1..MaxRuns : MigrateUpBegin(c, n)
        \/ MigrateUpRun(c)
        \/ MigrateUpSave(c)
        \/ \E n \in 1..MaxRuns : MigrateDownBegin(c, n)
        \/ MigrateDownRun(c)
        \/ MigrateDownRemove(c)
        \/ NewPlanCall(c)

Spec == Init /\ [][Next]_vars

\* NewPlan on any registry and any persisted history.
InitPlan ==
    /\ registry \in SUBSET Versions
    /\ repoKind \in RepoKinds
    /\ store \in Histories(MaxRecords)
    /\ repoKind = "Mysql" => HasOneRowPerVersion(store)
    /\ now = 1
    /\ num = <<>>
    /\ InitUnits
    /\ InitCalls

NextPlan == Tick \/ \E c \in SerialCallers : NewPlanCall(c)

SpecPlan == InitPlan /\ [][NextPlan]_vars

\* NewHandler on any registry and any persisted history.
NextHandler ==
    \E c \in SerialCallers : \E builder \in Builders : NewHandlerCall(c, builder)

SpecHandler == InitPlan /\ [][NextHandler]_vars

\* The forced calls, on any registry and any persisted history left by
\* earlier runs, at a later time.
InitForce ==
    /\ registry \in SUBSET Versions
    /\ repoKind \in RepoKinds
    /\ store \in Histories(MaxForceRecords)
    /\ repoKind = "Mysql" => HasOneRowPerVersion(store)
    /\ now = MaxTime
    /\ num = <<>>
    /\ InitUnits
    /\ InitCalls

NextForce ==
    \E c \in SerialCallers :
        \/ \E version \in Versions : ForceUpBegin(c, version)
        \/ ForceUpSave(c)
        \/ \E version \in Versions : ForceDownBegin(c, version)
        \/ ForceDownRun(c)
        \/ ForceDownRemove(c)

SpecForce == InitForce /\ [][NextForce]_vars

\* Every string of at most n characters.
RECURSIVE Strings(_)
Strings(n) ==
    IF n = 0 THEN {<<>>}
    ELSE Strings(n - 1) \cup
         {Append(str, ch) : str \in {t \in Strings(n - 1) : Len(t) = n - 1},
                            ch \in Chars}

\* NewNumOfRuns on any string of at most MaxNumLen characters.
InitNum ==
    /\ num \in Strings(MaxNumLen)
    /\ registry = {}
    /\ repoKind \in RepoKinds
    /\ store = <<>>
    /\ now = 1
    /\ InitUnits
    /\ InitCalls

NextNum == \E c \in SerialCallers : NewNumOfRunsCall(c)

SpecNum == InitNum /\ [][NextNum]_vars

\* A program fills an empty registry.
InitRegistry ==
    /\ registry = {}
    /\ repoKind \in RepoKinds
    /\ store = <<>>
    /\ now = 1
    /\ num = <<>>
    /\ InitUnits
    /\ InitCalls

NextRegistry ==
    \E c \in SerialCallers : \E id \in UnitIds : \E version \in Versions :
        RegisterCall(c, Unit(id, version))

SpecRegistry == InitRegistry /\ [][NextRegistry]_vars

\* MigrateUp and MigrateDown called by two callers that nothing
\* serializes, one call each.
NextConcurrent ==
    \E c \in Callers :
        \/ \E n \in 1..MaxRuns : pc[c] = "idle" /\ MigrateUpBegin(c, n)
        \/ MigrateUpRun(c)
        \/ MigrateUpSave(c)
        \/ \E n \in 1..MaxRuns : pc[c] = "idle" /\ MigrateDownBegin(c, n)
        \/ MigrateDownRun(c)
        \/ MigrateDownRemove(c)

SpecConcurrent == Init /\ [][NextConcurrent]_vars

\* The calls that run Up, MigrateUp and ForceUp, on a history left by
\* earlier runs.
NextUp ==
    \E c \in SerialCallers :
        \/ \E n \in 1..MaxRuns : MigrateUpBegin(c, n)
        \/ MigrateUpRun(c)
        \/ MigrateUpSave(c)
        \/ \E version \in Versions : ForceUpBegin(c, version)
        \/ ForceUpSave(c)

SpecUp == Init /\ [][NextUp]_vars

\* The execution record in the calls that run Up and then on its own.
NextExecution ==
    \E c \in SerialCallers :
        \/ \E version \in Versions : StartExecutionCall(c, version)
        \/ FinishExecutionCall(c)
        \/ /\ op[c].name \notin {"StartExecution", "FinishExecution"}
           /\ \/ \E n \in 1..MaxRuns : MigrateUpBegin(c, n)
              \/ \E version \in Versions : ForceUpBegin(c, version)
        \/ MigrateUpRun(c)
        \/ MigrateUpSave(c)
        \/ ForceUpSave(c)

SpecExecution == Init /\ [][NextExecution]_vars

\* MigrateUp(all) called again and again by one caller on a table (Save is
\* an upsert) whose calls succeed; Up may fail.
InitRetry ==
    /\ Init
    /\ repoKind = "Mysql"

RetryStep(c) ==
    /\ \/ MigrateUpBegin(c, AllRuns)
       \/ MigrateUpRun(c)
       \/ MigrateUpSave(c)
    /\ failed'[c] \cap {"LoadExecutions", "Save"} = {}

NextRetry == \E c \in SerialCallers : RetryStep(c)

\* The Up of version v is run and returns nil.
UpSucceeds(c, v) ==
    /\ RetryStep(c)
    /\ pc[c] = "up"
    /\ MigrationToExec(c) = v
    /\ "Up" \notin failed'[c]

\* The caller keeps calling and every call goes on to its end; the Up of a
\* unit that is run again and again does not fail for ever.
FairRetry ==
    /\ WF_vars(NextRetry)
    /\ \A v \in Versions : \A c \in SerialCallers : SF_vars(UpSucceeds(c, v))

SpecRetry == InitRetry /\ [][NextRetry]_vars /\ FairRetry

\* MigrateUp, MigrateDown and NewPlan with a registry that is empty or
\* holds one migration, on any persisted history of at most MaxForceRecords
\* records.
InitAny ==
    /\ InitForce
    /\ Cardinality(registry) <= 1

NextAny ==
    \E c \in SerialCallers :
        \/ \E n \in 1..MaxRuns : MigrateUpBegin(c, n)
        \/ MigrateUpRun(c)
        \/ MigrateUpSave(c)
        \/ \E n \in 1..MaxRuns : MigrateDownBegin(c, n)
        \/ MigrateDownRun(c)
        \/ MigrateDownRemove(c)
        \/ NewPlanCall(c)

SpecAny == InitAny /\ [][NextAny]_vars

\* One MigrateUp followed, once it has returned, by one MigrateDown.
NextRoundTrip ==
    \/ \E n \in 1..MaxRuns : pc["c1"] = "idle" /\ MigrateUpBegin("c1", n)
    \/ MigrateUpRun("c1")
    \/ MigrateUpSave("c1")
    \/ \E n \in 1..MaxRuns :
          /\ pc["c1"] = "done"
          /\ pc["c2"] = "idle"
          /\ MigrateDownBegin("c2", n)
    \/ MigrateDownRun("c2")
    \/ MigrateDownRemove("c2")

SpecRoundTrip == Init /\ [][NextRoundTrip]_vars

\* The most digits of the number in a file name.
MaxDigits == 2

\* The digits of the file names.
NameDigits == {"0", "1", "2"}

\* Every sequence of 1 to n digits.
RECURSIVE DigitStrings(_)
DigitStrings(n) ==
    IF n = 0 THEN {}
    ELSE DigitStrings(n - 1) \cup
         {<<d>> : d \in NameDigits} \cup
         {Append(ds, d) : ds \in DigitStrings(n - 1), d \in NameDigits}

\* What may follow the number in a file name.
NameEndings == {GoExtension, <<>>, <<".", "t", "x", "t">>}

\* The entries of the directory: files named version_ and a number of at
\* most MaxDigits digits, with or without an extension, another Go file,
\* and a subdirectory named as a migration file is.
FileNames ==
    {FileNamePrefix \o FileNameSeparator \o ds \o ending :
        ds \in DigitStrings(MaxDigits), ending \in NameEndings}
    \cup {<<"v", "1">> \o GoExtension}

DirEntries ==
    {DirEntry(name, FALSE) : name \in FileNames}
    \cup {DirEntry(FileNamePrefix \o FileNameSeparator \o <<"2">> \o GoExtension, TRUE)}

\* The code point of a character of a file name.
CodePoint == "." :> 46 @@ "0" :> 48 @@ "1" :> 49 @@ "2" :> 50 @@ "_" :> 95 @@
             "e" :> 101 @@ "g" :> 103 @@ "i" :> 105 @@ "n" :> 110 @@
             "o" :> 111 @@ "r" :> 114 @@ "s" :> 115 @@ "t" :> 116 @@
             "v" :> 118 @@ "x" :> 120

\* The order of os.ReadDir: by file name, byte by byte.
NameBefore(a, b) ==
    \E k \in 1..(Len(a) + 1) :
        /\ k <= Len(b)
        /\ SubSeq(a, 1, k - 1) = SubSeq(b, 1, k - 1)
        /\ k <= Len(a) => CodePoint[a[k]] < CodePoint[b[k]]

\* A directory of at most two entries and any registry on it.
InitDir ==
    /\ registry \in SUBSET Versions
    /\ RegisteredAscending
    /\ dirEntries \in {<<>>} \cup {<<item>> : item \in DirEntries}
                       \cup {<<a, b>> : a, b \in DirEntries}
    /\ \A i \in 1..(Len(dirEntries) - 1) :
          NameBefore(Name(dirEntries[i]), Name(dirEntries[i + 1]))
    /\ repoKind = "Mysql"
    /\ store = <<>>
    /\ now = 1
    /\ num = <<>>
    /\ InitCalls

\* One call on the directory as it is.
NextDir ==
    \E c \in SerialCallers :
        \/ pc[c] = "idle" /\ HasAllMigrationsRegisteredCall(c)
        \/ pc[c] = "idle" /\ AssertValidRegistryCall(c)

SpecDir == InitDir /\ [][NextDir]_vars

\* Longest steps value given to the up and down commands.
MaxStepsLen == 2

\* One run of the up or of the down command, with any steps value of at
\* most MaxStepsLen characters or none, on a history left by earlier runs.
InitCommand ==
    /\ num \in Strings(MaxStepsLen) \cup {DefaultSteps}
    /\ registry \in SUBSET Versions
    /\ repoKind \in RepoKinds
    /\ store \in ConsistentHistories(registry)
    /\ now = 1
    /\ InitUnits
    /\ InitCalls

NextCommand ==
    \E c \in SerialCallers :
        \/ pc[c] = "idle" /\ MigrateUpCommandExec(c)
        \/ MigrateUpRun(c)
        \/ MigrateUpSave(c)
        \/ pc[c] = "idle" /\ MigrateDownCommandExec(c)
        \/ MigrateDownRun(c)
        \/ MigrateDownRemove(c)

SpecCommand == InitCommand /\ [][NextCommand]_vars

-----------------------------------------------------------------------------
(* Properties *)

\* The caller whose calls the properties are about.
Caller == "c1"

VersionsOf(st) == {st[i].Version : i \in 1..Len(st)}

RecordsOf(st, v) == SelectSeq(st, LAMBDA e : e.Version = v)

NumFinished(st) == Cardinality({i \in 1..Len(st) : Finished(st[i])})

HasUnfinishedTail(st) ==
    \E i \in 1..Len(st) :
        /\ ~Finished(st[i])
        /\ \A j \in 1..Len(st) : st[j].Version <= st[i].Version

\* The history is a gapless prefix of the registered versions, one record
\* a version, and only the record of the highest version may be unfinished.
IsGaplessPrefix(reg, st) ==
    /\ Cardinality(VersionsOf(st)) = Len(st)
    /\ VersionsOf(st) \subseteq reg
    /\ \A v \in VersionsOf(st) : \A w \in reg : w < v => w \in VersionsOf(st)
    /\ \A i \in 1..Len(st) :
          ~Finished(st[i]) => \A j \in 1..Len(st) : st[j].Version <= st[i].Version

\* The call `name` of the caller has returned.
Done(name) == pc[Caller] = "done" /\ op[Caller].name = name

LoadFailed == "failed to load executions" \in err[Caller]

\* The call built its plan (it did not return on the empty registry, on a
\* load error or on an inconsistent history).
HasPlan == plan[Caller] # <<>>

\* The versions of the calls of Up or Down in a trace, in order.
Invoked(tr, call) ==
    LET sel == SelectSeq(tr, LAMBDA e : e.call = call)
    IN  [i \in 1..Len(sel) |-> sel[i].version]

\* Every plan NewPlan can build on the store as it is now.
PlansNow ==
    {out \in NewPlan(registry, repoKind, store) :
        "failed to load executions" \notin out.err}

\* C1: whenever LoadExecutions succeeds, NewPlan returns a plan exactly when
\* the persisted records, sorted by version, are a gapless prefix of the
\* registered versions with every record but possibly the last one
\* finished; in every other case it returns no plan and an error.
C1_NewPlanIffPrefix ==
    (Done("NewPlan") /\ ~LoadFailed) =>
        /\ HasPlan <=> IsGaplessPrefix(registry, snap[Caller])
        /\ HasPlan <=> err[Caller] = {}

\* A plan built from records returned out of order, the last one unfinished.
C1_Witness ==
    /\ Done("NewPlan")
    /\ HasPlan
    /\ Len(snap[Caller]) >= 2
    /\ ~IsSortedByVersion(snap[Caller])
    /\ HasUnfinishedTail(snap[Caller])

\* C2: with a store whose Save is an upsert by version and whose failing
\* Save or Remove changes nothing, the persisted history stays, through any
\* sequence of MigrateUp and MigrateDown calls run one at a time, a gapless
\* prefix of the registered versions with at most the last record
\* unfinished, so NewPlan keeps succeeding.
C2_HistoryStaysPrefix ==
    repoKind = "Mysql" =>
        /\ IsGaplessPrefix(registry, store)
        /\ \A out \in PlansNow : out.plan # <<>>

\* A second failed attempt of the same version on the SQL store: the
\* unfinished tail record was replaced, not doubled.
C2_Witness ==
    /\ repoKind = "Mysql"
    /\ Done("MigrateUp")
    /\ "up" \in err[Caller] /\ "save" \notin err[Caller]
    /\ HasUnfinishedTail(snap[Caller])
    /\ Len(store) >= 2
    /\ store # snap[Caller]

\* The highest version of a non-empty history.
TopVersion(st) == CHOOSE v \in VersionsOf(st) : \A w \in VersionsOf(st) : w <= v

\* The versions of a history, highest first.
Descending(st) == Reverse(SetToSortedSeq(VersionsOf(st)))

\* The call is a MigrateUp on a history NewPlan accepted.
InMigrateUp ==
    /\ op[Caller].name = "MigrateUp"
    /\ HasPlan
    /\ IsGaplessPrefix(registry, snap[Caller])

\* C3: when the history ends with an unfinished record for version v,
\* NextToExecute() is the unit of v and MigrateUp(1) invokes the Up of v
\* again; when that Up succeeds the store afterwards holds exactly one
\* record for v, and it is finished.
C3_ResumeFinishesTheRecord ==
    (InMigrateUp /\ pc[Caller] = "done" /\ op[Caller].numOfRuns = 1
        /\ HasUnfinishedTail(snap[Caller])) =>
        LET v == TopVersion(snap[Caller])
        IN  /\ NextToExecute(plan[Caller][1]) = <<v>>
            /\ Invoked(trace[Caller], "Up") = <<v>>
            /\ err[Caller] = {} =>
                  /\ Len(RecordsOf(store, v)) = 1
                  /\ Finished(RecordsOf(store, v)[1])

\* C4: when the Up of the k-th unit of a MigrateUp(N) is the first to fail,
\* the result has k entries, the first k-1 finished and the k-th with an
\* unfinished record, the error is not nil, and the store holds the f+k-1
\* finished records plus one unfinished record for the failing version if
\* its Save succeeded, and no record for it if that Save failed too.
C4_HaltOnUpError ==
    (InMigrateUp /\ pc[Caller] = "done" /\ "up" \in err[Caller]) =>
        LET ups == Invoked(trace[Caller], "Up")
            k == Len(ups)
            f == NumFinished(snap[Caller])
            r == ret[Caller]
        IN  /\ k >= 1 /\ k <= op[Caller].numOfRuns
            /\ Len(r) = k
            /\ \A i \in 1..(k - 1) :
                  r[i].Execution # <<>> /\ Finished(r[i].Execution[1])
            /\ r[k].Migration = <<ups[k]>>
            /\ r[k].Execution # <<>> /\ ~Finished(r[k].Execution[1])
            /\ NumFinished(store) = f + k - 1
            /\ "save" \notin err[Caller] =>
                  /\ Len(RecordsOf(store, ups[k])) = 1
                  /\ ~Finished(RecordsOf(store, ups[k])[1])
            /\ "save" \in err[Caller] => RecordsOf(store, ups[k]) = <<>>

\* C4 as amended: as C4, except for what the store holds for the failing
\* version: never a finished record; the newly saved unfinished record if
\* its Save succeeded, which is the only one if Save is an upsert; and if
\* that Save failed, on a store whose failing Save persists nothing, what
\* it held before the call: nothing, or the unfinished tail record left by
\* an earlier attempt.
C4_HaltOnUpErrorKeepsEarlierRecord ==
    (InMigrateUp /\ pc[Caller] = "done" /\ "up" \in err[Caller]) =>
        LET ups == Invoked(trace[Caller], "Up")
            k == Len(ups)
            f == NumFinished(snap[Caller])
            r == ret[Caller]
            held == RecordsOf(store, ups[k])
        IN  /\ k >= 1 /\ k <= op[Caller].numOfRuns
            /\ Len(r) = k
            /\ \A i \in 1..(k - 1) :
                  r[i].Execution # <<>> /\ Finished(r[i].Execution[1])
            /\ r[k].Migration = <<ups[k]>>
            /\ r[k].Execution # <<>> /\ ~Finished(r[k].Execution[1])
            /\ NumFinished(store) = f + k - 1
            /\ \A i \in 1..Len(held) : ~Finished(held[i])
            /\ "save" \notin err[Caller] => r[k].Execution[1] \in Range(held)
            /\ (repoKind = "Mysql" /\ "save" \notin err[Caller]) =>
                  held = r[k].Execution
            /\ (repoKind = "Mysql" /\ "save" \in err[Caller]) =>
                  held = RecordsOf(snap[Caller], ups[k])

\* The Up of the unfinished tail version failed again and so did its Save:
\* the SQL store still holds the record of the earlier attempt.
C4_Witness ==
    /\ InMigrateUp
    /\ pc[Caller] = "done"
    /\ repoKind = "Mysql"
    /\ err[Caller] = {"up", "save"}
    /\ HasUnfinishedTail(snap[Caller])
    /\ Len(ret[Caller]) = 1
    /\ RecordsOf(store, ret[Caller][1].Migration[1]) # <<>>

C6_MigrateUpRunsPending ==
    (InMigrateUp /\ pc[Caller] = "done" /\ err[Caller] = {}) =>
        LET migs == OrderedMigrations(registry)
            f == NumFinished(snap[Caller])
            m == Min(op[Caller].numOfRuns, Len(migs) - f)
            r == ret[Caller]
        IN  /\ Invoked(trace[Caller], "Up") = SubSeq(migs, f + 1, f + m)
            /\ Len(r) = m
            /\ \A i \in 1..Len(r) :
                  /\ r[i].Migration = <<migs[f + i]>>
                  /\ r[i].Execution # <<>>
                  /\ Finished(r[i].Execution[1])
                  /\ r[i].Execution[1].Version = migs[f + i]
            /\ \A out \in PlansNow :
                  /\ out.plan # <<>>
                  /\ FinishedExecutionsCount(out.plan[1]) = f + m

\* The call is a MigrateDown that built its plan.
InMigrateDown == op[Caller].name = "MigrateDown" /\ HasPlan

\* C7: MigrateDown(N) on a history of finished records invokes Down only
\* for the min(N, records) highest versions, in descending order, removes
\* each record right after its Down and before the next Down, and leaves
\* the older versions alone; after a successful MigrateDown(1) a new plan
\* counts one finished execution less.
C7_DescendingRollback ==
    (InMigrateDown /\ \A i \in 1..Len(snap[Caller]) : Finished(snap[Caller][i])) =>
        LET tr == trace[Caller]
            downs == Invoked(tr, "Down")
            removes == Invoked(tr, "Remove")
            limit == Min(op[Caller].numOfRuns, Len(snap[Caller]))
            finished == pc[Caller] = "done" /\ err[Caller] = {}
        IN  /\ Len(downs) <= limit
            /\ downs = SubSeq(Descending(snap[Caller]), 1, Len(downs))
            /\ removes = SubSeq(downs, 1, Len(removes))
            /\ \A j \in 1..Len(tr) :
                  tr[j].call = IF j % 2 = 1 THEN "Down" ELSE "Remove"
            /\ \A i \in 1..Len(ret[Caller]) :
                  ret[Caller][i].Execution # <<>> =>
                      ret[Caller][i].Migration[1] \notin VersionsOf(store)
            /\ pc[Caller] = "down" =>
                  VersionsOf(store) = VersionsOf(snap[Caller]) \ Range(downs)
            /\ finished =>
                  /\ Len(downs) = limit
                  /\ VersionsOf(store) = VersionsOf(snap[Caller]) \ Range(downs)
            /\ (finished /\ op[Caller].numOfRuns = 1 /\ Len(snap[Caller]) >= 1) =>
                  \A out \in PlansNow :
                      /\ out.plan # <<>>
                      /\ FinishedExecutionsCount(out.plan[1])
                            = Len(snap[Caller]) - 1

\* Two of three finished records rolled back, the oldest one left.
C7_Witness ==
    /\ InMigrateDown
    /\ pc[Caller] = "done" /\ err[Caller] = {}
    /\ op[Caller].numOfRuns = 2
    /\ Len(snap[Caller]) = 3
    /\ \A i \in 1..3 : Finished(snap[Caller][i])
    /\ Len(trace[Caller]) = 4
    /\ Len(store) = 1

\* C8: when a Down of MigrateDown fails, Remove is not called for the unit
\* and its record stays; when Remove fails after a successful Down the
\* batch stops as well; either way the failing unit is the last entry of
\* the result, with a nil Execution, the error is not nil and no Down of a
\* lower version is invoked.
C8_DownStopsAtFailure ==
    (InMigrateDown /\ err[Caller] # {}) =>
        LET downs == Invoked(trace[Caller], "Down")
            removes == Invoked(trace[Caller], "Remove")
            r == ret[Caller]
        IN  /\ pc[Caller] = "done"
            /\ Len(downs) >= 1 /\ Len(r) = Len(downs)
            /\ r[Len(r)].Migration = <<downs[Len(downs)]>>
            /\ r[Len(r)].Execution = <<>>
            /\ \A i \in 1..(Len(r) - 1) : r[i].Execution # <<>>
            /\ trace[Caller][Len(trace[Caller])].version = downs[Len(downs)]
            /\ "down" \in err[Caller] =>
                  /\ removes = SubSeq(downs, 1, Len(downs) - 1)
                  /\ RecordsOf(store, downs[Len(downs)]) # <<>>
                  /\ RecordsOf(store, downs[Len(downs)])
                        = RecordsOf(snap[Caller], downs[Len(downs)])
            /\ "remove" \in err[Caller] => removes = downs

\* The second Remove of a batch of three failed: the third Down never ran.
C8_Witness ==
    /\ InMigrateDown
    /\ pc[Caller] = "done"
    /\ "remove" \in err[Caller]
    /\ Len(ret[Caller]) = 2
    /\ ActualNumOfRuns(Caller) = 3
    /\ Len(Invoked(trace[Caller], "Down")) = 2

\* The pair of the i-th registered migration and the i-th sorted record.
PairAt(p, i) ==
    ExecutedMigration(<<p.orderedMigrations[i]>>, <<p.orderedExecutions[i]>>)

\* C9 as stated: AllExecuted() has one pair per finished record only, as
\* many as FinishedExecutionsCount(), an unfinished tail record left out,
\* pair i made of migration i and a record of its version, and
\* LastExecuted() is the pair of the last finished record, absent if none.
C9_AllExecutedFinishedOnly ==
    (Done("NewPlan") /\ HasPlan) =>
        LET p == plan[Caller][1]
            all == AllExecuted(p)
            n == FinishedExecutionsCount(p)
        IN  /\ Len(all) = n
            /\ \A i \in 1..Len(all) :
                  /\ Finished(all[i].Execution[1])
                  /\ all[i].Migration = <<OrderedMigrations(registry)[i]>>
                  /\ all[i].Execution[1].Version = all[i].Migration[1]
            /\ LastExecuted(p) = IF n = 0 THEN ExecutedMigration(<<>>, <<>>)
                                 ELSE PairAt(p, n)

\* C9 as amended: AllExecuted() has one pair per persisted record, the
\* unfinished tail record included: FinishedExecutionsCount() pairs, and
\* one more when the last record is unfinished; pair i is made of
\* registered migration i and the persisted record of its version;
\* LastExecuted() is the pair of the last persisted record, finished or
\* not, and the zero pair when nothing is persisted.
C9_AllExecutedHasEveryRecord ==
    (Done("NewPlan") /\ HasPlan) =>
        LET p == plan[Caller][1]
            all == AllExecuted(p)
            n == FinishedExecutionsCount(p)
            st == snap[Caller]
        IN  /\ Len(all) = Len(st)
            /\ Len(all) = n + (IF HasUnfinishedTail(st) THEN 1 ELSE 0)
            /\ \A i \in 1..Len(all) :
                  /\ all[i].Migration = <<OrderedMigrations(registry)[i]>>
                  /\ all[i].Execution[1].Version = all[i].Migration[1]
                  /\ all[i].Execution = RecordsOf(st, all[i].Migration[1])
                  /\ i <= n => Finished(all[i].Execution[1])
            /\ LastExecuted(p) =
                  IF Len(st) = 0 THEN ExecutedMigration(<<>>, <<>>)
                  ELSE ExecutedMigration(<<TopVersion(st)>>,
                                         RecordsOf(st, TopVersion(st)))

\* A plan on two finished records and an unfinished third one.
C9_Witness ==
    /\ Done("NewPlan") /\ HasPlan
    /\ Len(snap[Caller]) = 3
    /\ HasUnfinishedTail(snap[Caller])
    /\ Len(AllExecuted(plan[Caller][1])) = 3
    /\ ~Finished(LastExecuted(plan[Caller][1]).Execution[1])

\* C10: MigrateDown rolls an unfinished tail record back like any other:
\* the first Down is always that of the highest persisted version, finished
\* or not, and on [v1 finished, v2 unfinished] MigrateDown(all) invokes
\* Down for v2, then for v1, and removes both records.
C10_UnfinishedTailRolledBack ==
    InMigrateDown =>
        LET tr == trace[Caller]
            st == snap[Caller]
        IN  /\ tr # <<>> => tr[1] = Event("Down", TopVersion(st))
            /\ (pc[Caller] = "done" /\ Len(st) >= 1) => tr # <<>>
            /\ (pc[Caller] = "done" /\ err[Caller] = {}
                    /\ op[Caller].numOfRuns >= Len(st)) =>
                  /\ Invoked(tr, "Down") = Descending(st)
                  /\ Invoked(tr, "Remove") = Descending(st)
                  /\ store = <<>>

\* [v1 finished, v2 unfinished] rolled back entirely, v2 first.
C10_Witness ==
    /\ InMigrateDown
    /\ pc[Caller] = "done" /\ err[Caller] = {}
    /\ Len(snap[Caller]) = 2
    /\ HasUnfinishedTail(snap[Caller])
    /\ Len(Invoked(trace[Caller], "Down")) = 2
    /\ store = <<>>


\* The registered versions without a finished record in the history st.
Pending(reg, st) ==
    {v \in reg : ~\E i \in 1..Len(st) : st[i].Version = v /\ Finished(st[i])}

\* C11: for every plan built, AllToBeExecuted() is the registered
\* migrations from index FinishedExecutionsCount() on, ascending, the unit
\* of an unfinished tail record included; NextToExecute() is its first
\* element, absent when it is empty; on an empty registry and an empty
\* store the plan is built and every query is empty or absent.
C11_PendingSuffix ==
    (Done("NewPlan") /\ ~LoadFailed) =>
        /\ HasPlan =>
              LET p == plan[Caller][1]
                  migs == OrderedMigrations(registry)
                  all == AllToBeExecuted(p)
              IN  /\ all = SubSeq(migs, FinishedExecutionsCount(p) + 1,
                                  Len(migs))
                  /\ all = SetToSortedSeq(Pending(registry, snap[Caller]))
                  /\ HasUnfinishedTail(snap[Caller]) =>
                        all # <<>> /\ all[1] = TopVersion(snap[Caller])
                  /\ NextToExecute(p) =
                        IF all = <<>> THEN <<>> ELSE <<all[1]>>
        /\ (registry = {} /\ snap[Caller] = <<>>) =>
              /\ HasPlan
              /\ AllToBeExecuted(plan[Caller][1]) = <<>>
              /\ AllExecuted(plan[Caller][1]) = <<>>
              /\ NextToExecute(plan[Caller][1]) = <<>>
              /\ LastExecuted(plan[Caller][1]) = ExecutedMigration(<<>>, <<>>)
              /\ RegisteredMigrationsCount(plan[Caller][1]) = 0
              /\ FinishedExecutionsCount(plan[Caller][1]) = 0

\* A plan on a finished record and an unfinished second one, with a third
\* migration registered: the unfinished one is the next to execute.
C11_Witness ==
    /\ Done("NewPlan") /\ HasPlan
    /\ Len(snap[Caller]) = 2
    /\ HasUnfinishedTail(snap[Caller])
    /\ Len(AllToBeExecuted(plan[Caller][1])) = 2
    /\ NextToExecute(plan[Caller][1]) = <<TopVersion(snap[Caller])>>

\* C12: for every plan built, RegisteredMigrationsCount() is the number of
\* registered migrations and FinishedExecutionsCount() is the number of
\* persisted records, less one when the last record is unfinished; so
\* 0 <= FinishedExecutionsCount() <= RegisteredMigrationsCount().
C12_Counts ==
    (Done("NewPlan") /\ HasPlan) =>
        LET p == plan[Caller][1]
            st == snap[Caller]
        IN  /\ RegisteredMigrationsCount(p) = Cardinality(registry)
            /\ FinishedExecutionsCount(p) =
                  Len(st) - (IF HasUnfinishedTail(st) THEN 1 ELSE 0)
            /\ FinishedExecutionsCount(p) = NumFinished(st)
            /\ 0 <= FinishedExecutionsCount(p)
            /\ FinishedExecutionsCount(p) <= RegisteredMigrationsCount(p)

\* A plan on as many records as registered migrations, the last unfinished.
C12_Witness ==
    /\ Done("NewPlan") /\ HasPlan
    /\ Len(snap[Caller]) = Cardinality(registry)
    /\ HasUnfinishedTail(snap[Caller])
    /\ FinishedExecutionsCount(plan[Caller][1]) = Len(snap[Caller]) - 1
    /\ FinishedExecutionsCount(plan[Caller][1]) >= 1

\* The records in the order NewPlan scanned them: the in-memory repository
\* holds them as sorted by the call; a table has one row a version, so
\* there is one ascending order.
Scanned ==
    IF repoKind = "InMemory" THEN store
    ELSE CHOOSE s \in SortedExecutions(snap[Caller]) : TRUE

\* The indexes of the scanned records that break the plan's rules.
Offending ==
    LET migs == OrderedMigrations(registry)
    IN  {i \in 1..Len(Scanned) :
            \/ ~Finished(Scanned[i]) /\ i < Len(Scanned)
            \/ Scanned[i].Version # migs[i]}

FirstOffending == CHOOSE i \in Offending : \A j \in Offending : i <= j

\* C13: NewPlan reports one error per kind of violation, with a fixed
\* precedence: more records than registered migrations before anything
\* else; otherwise the first offending index in ascending version order
\* decides, and at that index an unfinished record that is not the last
\* one goes before a version mismatch.
C13_ErrorPrecedence ==
    (Done("NewPlan") /\ ~LoadFailed) =>
        IF Len(Scanned) > Cardinality(registry)
        THEN err[Caller] = {"more executions than registered migrations"}
        ELSE IF Offending = {} THEN err[Caller] = {}
        ELSE IF ~Finished(Scanned[FirstOffending])
                /\ FirstOffending < Len(Scanned)
        THEN err[Caller] = {"multiple executions which are not finished"}
        ELSE err[Caller] = {"Migrations and executions are out of order"}

\* The first offending record is both unfinished before the last one and
\* of the wrong version.
C13_Witness ==
    /\ Done("NewPlan") /\ ~LoadFailed
    /\ Len(Scanned) <= Cardinality(registry)
    /\ Offending # {}
    /\ ~Finished(Scanned[FirstOffending])
    /\ FirstOffending < Len(Scanned)
    /\ Scanned[FirstOffending].Version # OrderedMigrations(registry)[FirstOffending]
    /\ err[Caller] = {"multiple executions which are not finished"}


\* The version a forced call was given.
ForcedVersion == op[Caller].version

\* The running or last call is ForceUp/ForceDown of a registered version.
InForce(name) == op[Caller].name = name /\ ForcedVersion \in registry

\* The records of the versions other than v, in order.
OthersOf(st, v) == SelectSeq(st, LAMBDA e : e.Version # v)

ForceDownRan ==
    /\ InForce("ForceDown")
    /\ pc[Caller] = "done"
    /\ RecordsOf(snap[Caller], ForcedVersion) # <<>>
    /\ Invoked(trace[Caller], "Down") # <<>>

\* C15: ForceDown(v) of a registered v with a persisted record: when Down
\* fails Remove is not called and the record stays; when Down succeeds
\* exactly the record of v is removed and every other record is unchanged.
C15_ForceDownRemovesRecord ==
    ForceDownRan =>
        LET v == ForcedVersion
        IN  /\ "Down" \in failed[Caller] =>
                  /\ Invoked(trace[Caller], "Remove") = <<>>
                  /\ store = snap[Caller]
            /\ "Down" \notin failed[Caller] =>
                  /\ RecordsOf(store, v) = <<>>
                  /\ OthersOf(store, v) = OthersOf(snap[Caller], v)

\* C15 as amended: when Down fails Remove is not called and the store is
\* unchanged; when Down succeeds Remove is called once, for v, and every
\* other record is unchanged; no record of v is left when Remove returned
\* no error; when Remove failed its error is returned, and a store whose
\* failing Remove changes nothing still holds the record.
C15_ForceDownRemoveMayFail ==
    ForceDownRan =>
        LET v == ForcedVersion
        IN  /\ Invoked(trace[Caller], "Down") = <<v>>
            /\ "Down" \in failed[Caller] =>
                  /\ Invoked(trace[Caller], "Remove") = <<>>
                  /\ store = snap[Caller]
                  /\ err[Caller] = {"down"}
            /\ "Down" \notin failed[Caller] =>
                  /\ Invoked(trace[Caller], "Remove") = <<v>>
                  /\ OthersOf(store, v) = OthersOf(snap[Caller], v)
                  /\ "Remove" \notin failed[Caller] =>
                        RecordsOf(store, v) = <<>> /\ err[Caller] = {}
                  /\ "Remove" \in failed[Caller] =>
                        /\ err[Caller] = {"remove"}
                        /\ repoKind = "Mysql" => store = snap[Caller]

\* Down succeeded and Remove failed on the SQL store, which holds other
\* records too: the record of v is still there.
C15_Witness ==
    /\ ForceDownRan
    /\ repoKind = "Mysql"
    /\ failed[Caller] = {"Remove"}
    /\ Len(store) >= 2
    /\ RecordsOf(store, ForcedVersion) # <<>>

\* C16: ForceUp and ForceDown of a version that is not registered return
\* the empty result and no error, call no Up and no Down and make no
\* Save, Remove or FindOne call, whatever the store holds for the version.
C16_UnregisteredIsNoOp ==
    (op[Caller].name \in {"ForceUp", "ForceDown"}
        /\ ForcedVersion \notin registry) =>
        /\ pc[Caller] = "done"
        /\ trace[Caller] = <<>>
        /\ failed[Caller] = {}
        /\ err[Caller] = {}
        /\ store = snap[Caller]
        /\ ret[Caller] = ExecutedMigration(<<>>, <<>>)

\* ForceDown of an unregistered version the store has a record for.
C16_Witness ==
    /\ op[Caller].name = "ForceDown"
    /\ pc[Caller] = "done"
    /\ ForcedVersion \notin registry
    /\ RecordsOf(store, ForcedVersion) # <<>>
    /\ ret[Caller] = ExecutedMigration(<<>>, <<>>)

\* C17: ForceUp(v) of a registered v calls the Up of v once and then Save
\* once with a fresh record of v, whatever the history; the record saved
\* and returned is finished exactly when Up returned no error.
C17_ForceUpSavesFreshRecord ==
    InForce("ForceUp") =>
        LET v == ForcedVersion
        IN  /\ pc[Caller] \in {"force_save", "done"}
            /\ Len(cur[Caller]) = 1
            /\ cur[Caller][1].Version = v
            /\ cur[Caller][1].ExecutedAtMs = now
            /\ Finished(cur[Caller][1]) <=> "Up" \notin failed[Caller]
            /\ Finished(cur[Caller][1]) => cur[Caller][1].FinishedAtMs = now
            /\ ret[Caller] = ExecutedMigration(<<v>>, cur[Caller])
            /\ pc[Caller] = "force_save" =>
                  trace[Caller] = <<Event("Up", v)>>
            /\ pc[Caller] = "done" =>
                  /\ trace[Caller] = <<Event("Up", v), Event("Save", v)>>
                  /\ "Save" \notin failed[Caller] =>
                        cur[Caller][1] \in Range(store)
                  /\ (repoKind = "Mysql" /\ "Save" \notin failed[Caller]) =>
                        RecordsOf(store, v) = cur[Caller]

\* ForceUp of a version whose record is not the last of the history and is
\* finished: Up failed and the record saved over it is unfinished.
C17_Witness ==
    /\ InForce("ForceUp")
    /\ pc[Caller] = "done"
    /\ repoKind = "Mysql"
    /\ failed[Caller] = {"Up"}
    /\ Len(snap[Caller]) = 2
    /\ RecordsOf(snap[Caller], ForcedVersion) # <<>>
    /\ Finished(RecordsOf(snap[Caller], ForcedVersion)[1])
    /\ ~Finished(RecordsOf(store, ForcedVersion)[1])

\* C18: the error MigrateUp and ForceUp return carries the error of Up
\* exactly when an Up failed and the error of Save exactly when a Save
\* failed: both when both failed, and a Save error after a successful Up
\* is not dropped.
C18_BothErrorsReported ==
    (pc[Caller] = "done" /\ op[Caller].name \in {"MigrateUp", "ForceUp"}) =>
        /\ "up" \in err[Caller] <=> "Up" \in failed[Caller]
        /\ "save" \in err[Caller] <=> "Save" \in failed[Caller]
        /\ failed[Caller] # {} => err[Caller] # {}

\* The second unit of a MigrateUp failed in Up and in Save.
C18_Witness ==
    /\ Done("MigrateUp")
    /\ Len(ret[Caller]) = 2
    /\ failed[Caller] = {"Up", "Save"}
    /\ err[Caller] = {"up", "save"}

\* C19: when Save fails after the Up of a unit succeeded, MigrateUp stops
\* at that unit and returns an error with the error of Save, the last
\* entry of the result being that migration with its record; when
\* LoadExecutions fails, MigrateUp calls no Up and returns the empty
\* result and an error with the error of the load.
C19_SaveOrLoadFailureStops ==
    op[Caller].name = "MigrateUp" =>
        LET tr == trace[Caller]
            r == ret[Caller]
        IN  /\ ("Save" \in failed[Caller] /\ "Up" \notin failed[Caller]) =>
                  /\ pc[Caller] = "done"
                  /\ "save" \in err[Caller]
                  /\ tr[Len(tr)].call = "Save"
                  /\ Len(r) = Len(Invoked(tr, "Up"))
                  /\ r[Len(r)].Migration = <<tr[Len(tr)].version>>
                  /\ r[Len(r)].Execution = cur[Caller]
                  /\ Len(cur[Caller]) = 1
                  /\ r[Len(r)].Execution[1].Version = tr[Len(tr)].version
                  /\ Finished(r[Len(r)].Execution[1])
            /\ "LoadExecutions" \in failed[Caller] =>
                  /\ pc[Caller] = "done"
                  /\ tr = <<>>
                  /\ r = <<>>
                  /\ err[Caller] = {"failed to load executions"}
                  /\ store = snap[Caller]

\* The Save of the second of three pending units failed after its Up.
C19_Witness ==
    /\ Done("MigrateUp")
    /\ failed[Caller] = {"Save"}
    /\ ActualNumOfRuns(Caller) = 3
    /\ Len(ret[Caller]) = 2
    /\ Len(Invoked(trace[Caller], "Up")) = 2


\* The string is blank: empty, or made of spaces only.
IsBlank(str) == \A i \in 1..Len(str) : str[i] = " "

\* The string writes an integer: an optional sign and decimal digits.
IsInteger(str) ==
    \E k \in 0..1 :
        /\ Len(str) > k
        /\ k = 1 => str[1] \in {"+", "-"}
        /\ \A i \in (k + 1)..Len(str) :
              str[i] \in {"0", "1", "2", "3", "4", "5", "6", "7", "8", "9"}

\* The decimal digits ds write the number n, leading zeros allowed: the
\* last digit is n modulo 10 and the digits before it write n div 10.
RECURSIVE Writes(_, _)
Writes(ds, n) ==
    IF ds = <<>> THEN n = 0
    ELSE /\ n % 10 = Digit[ds[Len(ds)]]
         /\ Writes(SubSeq(ds, 1, Len(ds) - 1), n \div 10)

\* C20: NewNumOfRuns gives 99999 for "all", 1 for an empty or blank
\* string, n for a string that writes an integer n > 0 and 1 for one that
\* writes an integer n <= 0, and an error for any other string; the count
\* it returns is at least 1 in every case.
C20_NewNumOfRuns ==
    Done("NewNumOfRuns") =>
        LET n == op[Caller].numOfRuns
            digits == IF num # <<>> /\ num[1] \in {"+", "-"}
                      THEN Tail(num) ELSE num
        IN  /\ n >= 1
            /\ num = <<"a", "l", "l">> => n = AllRuns /\ err[Caller] = {}
            /\ IsBlank(num) => n = 1 /\ err[Caller] = {}
            /\ IsInteger(num) =>
                  /\ err[Caller] = {}
                  /\ IF num[1] = "-" \/ Writes(digits, 0) THEN n = 1
                     ELSE Writes(digits, n)
            /\ (num # <<"a", "l", "l">> /\ ~IsBlank(num) /\ ~IsInteger(num)) =>
                  err[Caller] # {}

\* A negative number was given: the count is 1 and there is no error.
C20_Witness ==
    /\ Done("NewNumOfRuns")
    /\ Len(num) = 3
    /\ num[1] = "-"
    /\ num[2] = "1"
    /\ IsInteger(num)
    /\ op[Caller].numOfRuns = 1
    /\ err[Caller] = {}


\* C21: when every registered migration has a finished record, MigrateUp
\* returns the empty result and no error, calls no Up, no Save and no
\* Remove and leaves the store as it was; so does a MigrateUp(all) that
\* follows a fully successful MigrateUp(all).
C21_NothingPendingIsNoOp ==
    (op[Caller].name = "MigrateUp"
        /\ Pending(registry, snap[Caller]) = {}
        /\ "LoadExecutions" \notin failed[Caller]) =>
        /\ pc[Caller] = "done"
        /\ trace[Caller] = <<>>
        /\ ret[Caller] = <<>>
        /\ err[Caller] = {}
        /\ store = snap[Caller]


\* The versions of the units whose Register returned nil.
RegisteredVersions == {Version(registered[i]) : i \in 1..Len(registered)}

\* The first unit registered with version v.
FirstRegistered(v) ==
    registered[CHOOSE i \in 1..Len(registered) :
                  /\ Version(registered[i]) = v
                  /\ \A j \in 1..(i - 1) : Version(registered[j]) # v]

\* What the registry holds is what was registered successfully.
RegistryHoldsRegistered ==
    /\ registry = DOMAIN migrations
    /\ registry = RegisteredVersions
    /\ Count(registry) = Cardinality(RegisteredVersions)
    /\ \A v \in Versions :
          /\ GetMigration(migrations, v) # <<>> <=> v \in RegisteredVersions
          /\ Get(registry, v) # <<>> <=> v \in RegisteredVersions
          /\ v \in RegisteredVersions =>
                GetMigration(migrations, v) = <<FirstRegistered(v)>>

\* C22: Register returns an error when a unit of the same version is
\* registered already and then leaves the registry as it was, Get still
\* returning the first unit and Count the same number; it returns nil
\* otherwise; Count is the number of distinct versions registered
\* successfully, and Get returns a unit exactly for these versions.
C22_RegisterRejectsDuplicates ==
    [][(op'[Caller].name = "Register" /\ pc'[Caller] = "done") =>
          LET v == op'[Caller].version
          IN  /\ v \in registry =>
                    /\ err'[Caller] # {}
                    /\ regVars' = regVars
                    /\ GetMigration(migrations', v) = GetMigration(migrations, v)
                    /\ Count(registry') = Count(registry)
              /\ v \notin registry =>
                    /\ err'[Caller] = {}
                    /\ Count(registry') = Count(registry) + 1
                    /\ GetMigration(migrations', v) # <<>>
              /\ RegistryHoldsRegistered']_vars

\* A second unit of a registered version was refused: the registry holds
\* the first one.
C22_Witness ==
    /\ Done("Register")
    /\ err[Caller] # {}
    /\ Len(registered) = 2
    /\ op[Caller].version = Version(registered[1])
    /\ GetMigration(migrations, op[Caller].version) = <<registered[1]>>

\* C23: in whatever order distinct versions are registered,
\* OrderedVersions() returns them strictly ascending, OrderedMigrations()
\* returns the units in the same order, and the version of the i-th unit
\* is the i-th version.
C23_OrderedAscending ==
    /\ OrderedVersionsOf(migrations) = {OrderedVersions(registry)}
    /\ \A vs \in OrderedVersionsOf(migrations) :
          /\ Range(vs) = RegisteredVersions
          /\ \A i \in 1..(Len(vs) - 1) : vs[i] < vs[i + 1]
          /\ \A ms \in OrderedMigrationsOf(migrations) :
                /\ Len(ms) = Len(vs)
                /\ Range(ms) = Range(registered)
                /\ \A i \in 1..Len(ms) : Version(ms[i]) = vs[i]
                /\ [i \in 1..Len(ms) |-> Version(ms[i])]
                      = OrderedMigrations(registry)
    /\ OrderedMigrationsOf(migrations) # {}

\* Every version was registered, in descending order.
C23_Witness ==
    /\ Len(registered) = MaxVersion
    /\ \A i \in 1..(Len(registered) - 1) :
          Version(registered[i]) > Version(registered[i + 1])
    /\ Done("Register")


\* Version v has a finished record in the history st.
HasFinished(st, v) ==
    \E i \in 1..Len(st) : st[i].Version = v /\ Finished(st[i])

\* C24: nothing in the handler excludes two calls from one another.  A
\* MigrateUp invokes Up for a version whose record in the store is finished
\* only in a call that another call overlapped: never under one-at-a-time
\* calls; and two overlapping calls that both built their plan before
\* either one saved both invoke Up for the same pending version.
C24_RerunOnlyWhenOverlapped ==
    [][\A c \in Callers :
          (pc[c] = "up" /\ pc'[c] = "up_save") =>
              (HasFinished(store, cur'[c][1].Version) => overlapped[c])]_vars

\* Both callers planned on the same history and both invoked, without an
\* error, the Up of the same version: it was executed twice.
C24_Witness ==
    /\ \A c \in Callers :
          /\ op[c].name = "MigrateUp"
          /\ pc[c] = "done"
          /\ err[c] = {}
          /\ overlapped[c]
    /\ snap["c1"] = snap["c2"]
    /\ \E v \in registry :
          /\ Event("Up", v) \in Range(trace["c1"])
          /\ Event("Up", v) \in Range(trace["c2"])

\* The histories a and b hold the same records, each as many times.
SameRecords(a, b) ==
    /\ Len(a) = Len(b)
    /\ \A r \in Range(a) \cup Range(b) :
          Cardinality({i \in 1..Len(a) : a[i] = r}) =
              Cardinality({i \in 1..Len(b) : b[i] = r})

\* The work of a call that built its plan, as fixed by the history it read
\* when it began.
WorkFixedAtBegin(c) ==
    plan[c] # <<>> =>
        /\ IsSortedByVersion(plan[c][1].orderedExecutions)
        /\ SameRecords(plan[c][1].orderedExecutions, snap[c])
        /\ op[c].name = "MigrateUp" =>
              LET ups == Invoked(trace[c], "Up")
              IN  /\ todo[c] = SetToSortedSeq(Pending(registry, snap[c]))
                  /\ Len(ups) <= Min(Len(todo[c]), op[c].numOfRuns)
                  /\ ups = SubSeq(todo[c], 1, Len(ups))
                  /\ (pc[c] = "done" /\ err[c] = {}) =>
                        Len(ups) = Min(Len(todo[c]), op[c].numOfRuns)
        /\ op[c].name = "MigrateDown" =>
              LET downs == Invoked(trace[c], "Down")
                  work == [i \in 1..Len(todo[c]) |-> todo[c][i].Migration[1]]
              IN  /\ work = Descending(snap[c])
                  /\ Len(downs) <= Min(Len(work), op[c].numOfRuns)
                  /\ downs = SubSeq(work, 1, Len(downs))
                  /\ (pc[c] = "done" /\ err[c] = {}) =>
                        Len(downs) = Min(Len(work), op[c].numOfRuns)

\* C25: a MigrateUp or MigrateDown call reads the history once, when it
\* begins and before any Up or Down, and fixes its work list from it: what
\* another call adds to or removes from the store while the call runs
\* changes neither its plan nor the units it handles; a call that begins
\* later plans on the store as it then is.
C25_WorkListFixedAtBegin ==
    /\ [](\A c \in Callers : WorkFixedAtBegin(c))
    /\ [][\A c \in Callers :
             pc[c] \notin {"idle", "done"} =>
                 plan'[c] = plan[c] /\ todo'[c] = todo[c] /\ snap'[c] = snap[c]]_vars

\* A MigrateUp and a MigrateDown planned on the same history; both ran to
\* the end without an error, each on its own work list.
C25_Witness ==
    /\ op["c1"].name = "MigrateUp" /\ op["c2"].name = "MigrateDown"
    /\ pc["c1"] = "done" /\ pc["c2"] = "done"
    /\ err["c1"] = {} /\ err["c2"] = {}
    /\ snap["c1"] = snap["c2"]
    /\ Len(ret["c1"]) >= 2
    /\ Len(ret["c2"]) >= 1
    /\ store # snap["c1"]



\* The calls a MigrateUp made so far: Up and Save in turn, each Save for
\* the version of the Up before it, the last Up still unsaved only while
\* the call is between that Up and its Save.
UpSaveInTurn(tr, between) ==
    /\ \A i \in 1..Len(tr) :
          IF i % 2 = 1 THEN tr[i].call = "Up"
          ELSE tr[i] = Event("Save", tr[i - 1].version)
    /\ Len(tr) % 2 = (IF between THEN 1 ELSE 0)

\* C26: MigrateUp saves once a unit and not in a batch: its calls are Up of
\* unit 1, Save of unit 1, Up of unit 2, Save of unit 2 and so on, one Save
\* for every Up; the store is not written from the beginning of a pass of
\* the loop until the unit's Up has returned, so a process stopped during
\* Up leaves no record of that unit; the one write that follows is the Save
\* of that unit's record.
C26_OneSaveAfterEachUp ==
    /\ [](op[Caller].name = "MigrateUp" =>
             /\ UpSaveInTurn(trace[Caller], pc[Caller] = "up_save")
             /\ Len(Invoked(trace[Caller], "Save")) =
                    Len(ret[Caller]) - (IF pc[Caller] = "up_save" THEN 1 ELSE 0))
    /\ [][op[Caller].name = "MigrateUp" =>
             /\ pc[Caller] = "up" => store' = store
             /\ (pc[Caller] = "up_save" /\ pc'[Caller] # "up_save") =>
                    \E saveOk \in BOOLEAN :
                        store' = Save(repoKind, store, cur[Caller][1], saveOk)]_vars

\* A MigrateUp that handled two units and returned: four calls were made.
C26_Witness ==
    /\ Done("MigrateUp")
    /\ Len(ret[Caller]) = 2
    /\ Len(trace[Caller]) = 4
    /\ "Save" \notin failed[Caller]
    /\ store # snap[Caller]



\* C27: NewHandler calls the store's Init once and makes no other call of
\* the store, whose rows it leaves as they are; when Init fails it returns
\* no handler and an error that wraps the error of Init, otherwise the
\* handler on the registry and the store given, with NewPlan as the plan
\* builder when none is given, and no error.
C27_NewHandlerInit ==
    Done("NewHandler") =>
        /\ trace[Caller] = <<Event("Init", 0)>>
        /\ store = snap[Caller]
        /\ IF "Init" \in failed[Caller]
           THEN /\ ret[Caller] = <<>>
                /\ "init" \in err[Caller]
                /\ err[Caller] # {"init"}
           ELSE /\ err[Caller] = {}
                /\ \E builder \in (Builders \ {"nil"}) \cup {"NewPlan"} :
                      ret[Caller] = <<Handler(registry, repoKind, builder)>>

\* NewHandler on a store that holds records and whose Init fails.
C27_Witness ==
    /\ Done("NewHandler")
    /\ "Init" \in failed[Caller]
    /\ store # <<>>
    /\ registry # {}



\* C28: when LoadExecutions fails, NewPlan returns no plan and an error
\* that wraps the error of the load and nothing else, whatever the records
\* persisted are (nothing is validated, the in-memory slice is not
\* sorted); MigrateUp on a registry that is not empty and MigrateDown then
\* return the empty result and that error, with no Up, no Down, no Save and
\* no Remove.
C28_LoadFailureReturnsAtOnce ==
    \A name \in {"NewPlan", "MigrateUp", "MigrateDown"} :
        (op[Caller].name = name /\ "LoadExecutions" \in failed[Caller]) =>
            /\ pc[Caller] = "done"
            /\ plan[Caller] = <<>>
            /\ err[Caller] = {"failed to load executions"}
            /\ ret[Caller] = <<>>
            /\ cur[Caller] = <<>>
            /\ trace[Caller] = <<>>
            /\ store = snap[Caller]
            /\ name = "MigrateUp" => Count(registry) > 0

\* The load of a MigrateDown failed on records no plan can be built on.
C28_Witness ==
    /\ Done("MigrateDown")
    /\ "LoadExecutions" \in failed[Caller]
    /\ store # <<>>
    /\ \A out \in PlansNow : out.err # {}



\* C29: the record StartExecution returns has the version of the unit,
\* FinishedAtMs = 0 and is not finished; a record is finished exactly when
\* its FinishedAtMs is above 0; FinishExecution leaves the record finished,
\* with the time of the call when it was not finished and as it was when
\* it was; in MigrateUp and ForceUp the record of a unit is finished only
\* if the Up of that unit returned no error.
C29_FinishedRecords ==
    /\ [](/\ Done("StartExecution") =>
               /\ cur[Caller][1].Version = op[Caller].version
               /\ cur[Caller][1].ExecutedAtMs <= now
               /\ cur[Caller][1].FinishedAtMs = 0
               /\ ~Finished(cur[Caller][1])
          /\ \A r \in Range(cur[Caller]) \cup Range(store) :
               Finished(r) <=> r.FinishedAtMs > 0
          /\ (op[Caller].name \in {"MigrateUp", "ForceUp"}
                /\ cur[Caller] # <<>> /\ Finished(cur[Caller][1])) =>
               /\ "Up" \notin failed[Caller]
               /\ "up" \notin err[Caller])
    /\ [][op'[Caller].name = "FinishExecution" =>
             /\ Finished(cur'[Caller][1])
             /\ cur'[Caller][1].Version = cur[Caller][1].Version
             /\ cur'[Caller][1].ExecutedAtMs = cur[Caller][1].ExecutedAtMs
             /\ IF Finished(cur[Caller][1])
                THEN cur'[Caller] = cur[Caller]
                ELSE cur'[Caller][1].FinishedAtMs = now']_vars

\* FinishExecution was called twice on a record, the second time later
\* than the time the record was finished at.
C29_Witness ==
    /\ Done("FinishExecution")
    /\ Len(trace[Caller]) = 3
    /\ Finished(cur[Caller][1])
    /\ cur[Caller][1].FinishedAtMs < now



\* Every registered version has a finished record in the store.
AllFinished == \A v \in registry : HasFinished(store, v)

\* C30: when MigrateUp(all) is called again and again, one call at a time,
\* on a consistent store whose Save is an upsert and whose calls succeed,
\* and the Up of no unit fails for ever, every registered version
\* eventually has a finished record, for good; every call begins at the
\* lowest version that had no finished record when it began (the unit that
\* failed is not skipped) and runs no unit that had one.
C30_RetryMakesProgress ==
    /\ [](op[Caller].name = "MigrateUp" =>
             LET ups == Invoked(trace[Caller], "Up")
                 pending == SetToSortedSeq(Pending(registry, snap[Caller]))
             IN  /\ IsGaplessPrefix(registry, store)
                 /\ Len(ups) <= Len(pending)
                 /\ ups = SubSeq(pending, 1, Len(ups))
                 /\ \A i \in 1..Len(ups) : ~HasFinished(snap[Caller], ups[i]))
    /\ <>[]AllFinished

\* A call that began on a history whose last record was not finished ran
\* that unit first and left every registered version finished.
C30_Witness ==
    /\ Done("MigrateUp")
    /\ op[Caller].numOfRuns = AllRuns
    /\ HasUnfinishedTail(snap[Caller])
    /\ Len(ret[Caller]) >= 2
    /\ trace[Caller][1] = Event("Up", snap[Caller][Len(snap[Caller])].Version)
    /\ err[Caller] = {}
    /\ AllFinished



\* The outcomes of NewPlan on the records st when the load succeeds.
PlansOn(st) ==
    {out \in NewPlan(registry, repoKind, st) :
        "failed to load executions" \notin out.err}

\* C31: whether NewPlan succeeds, which error it returns and the plan it
\* builds, hence the result of every query of the plan, depend on the
\* records persisted and not on the order LoadExecutions returns them in:
\* on every other ordering of the same records (one record a version)
\* NewPlan has the outcome it had.
C31_PlanIgnoresLoadOrder ==
    (Done("NewPlan") /\ ~LoadFailed /\ HasOneRowPerVersion(snap[Caller])) =>
        \A s \in Orderings(snap[Caller]) :
            \A out \in PlansOn(s) :
                /\ out.plan = plan[Caller]
                /\ out.err = err[Caller]
                /\ out.plan # <<>> =>
                      /\ AllToBeExecuted(out.plan[1]) =
                             AllToBeExecuted(plan[Caller][1])
                      /\ AllExecuted(out.plan[1]) = AllExecuted(plan[Caller][1])

\* A plan was built on three records that were loaded out of order.
C31_Witness ==
    /\ Done("NewPlan")
    /\ HasPlan
    /\ Len(snap[Caller]) = 3
    /\ ~IsSortedByVersion(snap[Caller])
    /\ HasOneRowPerVersion(snap[Caller])



\* ForceUp(v) returned, for a registered v without a record and with a
\* registered version below it that has no record either, on a history
\* NewPlan accepted.
ForcedAboveGap ==
    /\ InForce("ForceUp")
    /\ pc[Caller] = "done"
    /\ IsGaplessPrefix(registry, snap[Caller])
    /\ ForcedVersion \notin VersionsOf(snap[Caller])
    /\ \E w \in registry : w < ForcedVersion /\ w \notin VersionsOf(snap[Caller])

\* C32 as stated: after such a ForceUp the store holds a record of v above a
\* gap and every NewPlan fails with the out-of-order error.
C32_ForceUpGapOutOfOrder ==
    ForcedAboveGap =>
        /\ RecordsOf(store, ForcedVersion) # <<>>
        /\ ~IsGaplessPrefix(registry, store)
        /\ \A out \in PlansNow :
              /\ out.plan = <<>>
              /\ out.err = {"Migrations and executions are out of order"}

\* C32, amended: ForceUp does not keep the history a prefix.  After such a
\* ForceUp whose Save persisted the record (Up failed or not), the store
\* holds the record of v above a gap and every NewPlan on it fails: with
\* the out-of-order error when the history had no unfinished last record,
\* with the error of the unfinished executions when it had one.  When the
\* Save failed and persisted nothing the store is as it was.
C32_ForceUpGapBreaksPlan ==
    ForcedAboveGap =>
        IF repoKind = "Mysql" /\ "Save" \in failed[Caller]
        THEN store = snap[Caller]
        ELSE /\ RecordsOf(store, ForcedVersion) = cur[Caller]
             /\ OthersOf(store, ForcedVersion) = snap[Caller]
             /\ ~IsGaplessPrefix(registry, store)
             /\ \A out \in PlansNow :
                   /\ out.plan = <<>>
                   /\ out.err =
                        {IF HasUnfinishedTail(snap[Caller])
                         THEN "multiple executions which are not finished"
                         ELSE "Migrations and executions are out of order"}

\* A version was forced up above a gap on a history whose last record was
\* not finished: NewPlan now reports the unfinished executions.
C32_Witness ==
    /\ ForcedAboveGap
    /\ "Save" \notin failed[Caller]
    /\ HasUnfinishedTail(snap[Caller])
    /\ RecordsOf(store, ForcedVersion) # <<>>
    /\ \A out \in PlansNow :
          out.err = {"multiple executions which are not finished"}



\* ForceDown(v) of an executed v succeeded (Down and Remove returned nil)
\* on a history NewPlan accepted.
ForceDownSucceeded ==
    /\ ForceDownRan
    /\ err[Caller] = {}
    /\ failed[Caller] = {}
    /\ IsGaplessPrefix(registry, snap[Caller])

\* C33: ForceDown does not keep the history a prefix.  After a successful
\* ForceDown(v) of an executed v the record of v is gone and the others are
\* as they were: when v was the highest persisted version NewPlan accepts
\* the history, and when it was not the history has a gap at v and every
\* NewPlan on it fails with the out-of-order error.
C33_ForceDownGapBreaksPlan ==
    ForceDownSucceeded =>
        /\ store = OthersOf(snap[Caller], ForcedVersion)
        /\ IF ForcedVersion = TopVersion(snap[Caller])
           THEN /\ IsGaplessPrefix(registry, store)
                /\ \A out \in PlansNow : out.plan # <<>> /\ out.err = {}
           ELSE /\ ~IsGaplessPrefix(registry, store)
                /\ \E w \in VersionsOf(store) :
                      ForcedVersion < w /\ ForcedVersion \notin VersionsOf(store)
                /\ \A out \in PlansNow :
                      /\ out.plan = <<>>
                      /\ out.err = {"Migrations and executions are out of order"}

\* The lower of two records was forced down, the higher one not finished.
C33_Witness ==
    /\ ForceDownSucceeded
    /\ ForcedVersion # TopVersion(snap[Caller])
    /\ HasUnfinishedTail(snap[Caller])
    /\ store # <<>>



\* ForceUp(v) returned after the Up of v failed, for a registered v whose
\* record was finished, on a history NewPlan accepted.
ForcedUpFinishedFailed ==
    /\ InForce("ForceUp")
    /\ pc[Caller] = "done"
    /\ IsGaplessPrefix(registry, snap[Caller])
    /\ HasFinished(snap[Caller], ForcedVersion)
    /\ "Up" \in failed[Caller]

\* C34 as stated, on the store whose Save is an upsert: after such a
\* ForceUp the stored record of v is unfinished, and NewPlan fails with the
\* error of the unfinished executions when v is not the highest version.
C34_ForcedUpFailureUnfinishes ==
    (ForcedUpFinishedFailed /\ repoKind = "Mysql") =>
        /\ RecordsOf(store, ForcedVersion) = cur[Caller]
        /\ ~Finished(cur[Caller][1])
        /\ ForcedVersion # TopVersion(snap[Caller]) =>
              \A out \in PlansNow :
                  out.err = {"multiple executions which are not finished"}

\* C34, amended: after such a ForceUp, when the upsert Save succeeded the
\* record of v is replaced by the unfinished one and the other records are
\* as they were, so that v no longer counts as finished: NewPlan fails
\* with the error of the unfinished executions when v is not the highest
\* persisted version and counts one finished execution less when it is;
\* when the Save failed the table is as it was, the record of v finished.
\* The in-memory repository appends the unfinished record beside the
\* finished one.
C34_ForcedUpFailureUnfinishesIfSaved ==
    ForcedUpFinishedFailed =>
        LET v == ForcedVersion
        IN  /\ ~Finished(cur[Caller][1])
            /\ cur[Caller][1].Version = v
            /\ (repoKind = "Mysql" /\ "Save" \notin failed[Caller]) =>
                  /\ RecordsOf(store, v) = cur[Caller]
                  /\ OthersOf(store, v) = OthersOf(snap[Caller], v)
                  /\ NumFinished(store) = NumFinished(snap[Caller]) - 1
                  /\ IF v # TopVersion(snap[Caller])
                     THEN \A out \in PlansNow :
                            /\ out.plan = <<>>
                            /\ out.err =
                                 {"multiple executions which are not finished"}
                     ELSE \A out \in PlansNow :
                            /\ out.plan # <<>>
                            /\ FinishedExecutionsCount(out.plan[1]) =
                                   NumFinished(snap[Caller]) - 1
            /\ (repoKind = "Mysql" /\ "Save" \in failed[Caller]) =>
                  /\ store = snap[Caller]
                  /\ HasFinished(store, v)
            /\ repoKind = "InMemory" =>
                  /\ store = Append(snap[Caller], cur[Caller][1])
                  /\ HasFinished(store, v)

\* The forced Up of the lower of two finished versions failed and the
\* table now holds its record unfinished.
C34_Witness ==
    /\ ForcedUpFinishedFailed
    /\ repoKind = "Mysql"
    /\ failed[Caller] = {"Up"}
    /\ ForcedVersion # TopVersion(snap[Caller])
    /\ ~HasFinished(store, ForcedVersion)



\* C35: with an empty registry MigrateUp returns the empty result and no
\* error at once: it builds no plan and does not load the executions,
\* whatever the store holds (the in-memory slice is not even sorted) and
\* whether the load would fail or not.  MigrateDown with an empty registry
\* builds its plan all the same: it returns the error of the load when the
\* load fails and otherwise the error "more executions than registered
\* migrations" when the store holds a record, running nothing.
C35_EmptyRegistry ==
    registry = {} =>
        /\ op[Caller].name = "MigrateUp" =>
              /\ pc[Caller] = "done"
              /\ ret[Caller] = <<>>
              /\ err[Caller] = {}
              /\ plan[Caller] = <<>>
              /\ failed[Caller] = {}
              /\ trace[Caller] = <<>>
              /\ store = snap[Caller]
        /\ op[Caller].name = "MigrateDown" =>
              /\ pc[Caller] = "done"
              /\ ret[Caller] = <<>>
              /\ trace[Caller] = <<>>
              /\ VersionsOf(store) = VersionsOf(snap[Caller])
              /\ IF "LoadExecutions" \in failed[Caller]
                 THEN /\ err[Caller] = {"failed to load executions"}
                      /\ plan[Caller] = <<>>
                 ELSE IF snap[Caller] # <<>>
                 THEN /\ err[Caller] =
                          {"more executions than registered migrations"}
                      /\ plan[Caller] = <<>>
                 ELSE /\ err[Caller] = {}
                      /\ plan[Caller] # <<>>

\* MigrateUp returned on an empty registry and an in-memory store that
\* holds records out of order, which no load has sorted.
C35_Witness ==
    /\ registry = {}
    /\ Done("MigrateUp")
    /\ repoKind = "InMemory"
    /\ Len(store) >= 2
    /\ ~IsSortedByVersion(store)



\* MigrateUp returned because the Save of a unit failed after its Up had
\* succeeded.
SaveFailedAfterUp ==
    /\ Done("MigrateUp")
    /\ failed[Caller] = {"Save"}

\* C36 as stated, on the store whose failing Save persists nothing: the
\* store has no record of the unit and the next plan begins with it.
C36_SaveFailureLeavesNoRecord ==
    (SaveFailedAfterUp /\ repoKind = "Mysql") =>
        LET v == cur[Caller][1].Version
        IN  /\ RecordsOf(store, v) = <<>>
            /\ \A out \in PlansNow :
                  out.plan # <<>> /\ NextToExecute(out.plan[1]) = <<v>>

\* C36, amended: when the Save of version v fails and persists nothing
\* after the Up of v succeeded, the store holds for v what it held before
\* the call, no record or the unfinished record an earlier attempt left,
\* and in no case a finished one: every plan built next has v as the next
\* to execute, and the next MigrateUp that builds its plan invokes the Up
\* of v first, so the Up of a unit runs again although it succeeded and is
\* not skipped.  The in-memory repository, whose failing Save persists the
\* record, holds v finished.
C36_SaveFailureRerunsUp ==
    /\ [](SaveFailedAfterUp =>
             LET v == cur[Caller][1].Version
             IN  /\ Finished(cur[Caller][1])
                 /\ trace[Caller][Len(trace[Caller]) - 1] = Event("Up", v)
                 /\ repoKind = "Mysql" =>
                       /\ RecordsOf(store, v) = RecordsOf(snap[Caller], v)
                       /\ ~HasFinished(store, v)
                       /\ \A out \in PlansNow :
                             /\ out.plan # <<>>
                             /\ NextToExecute(out.plan[1]) = <<v>>
                 /\ repoKind = "InMemory" => HasFinished(store, v))
    /\ [][/\ (SaveFailedAfterUp /\ repoKind = "Mysql"
                /\ op'[Caller].name = "MigrateUp"
                /\ "LoadExecutions" \notin failed'[Caller]
                /\ trace'[Caller] = <<>>) =>
               /\ pc'[Caller] = "up"
               /\ idx'[Caller] = 0
               /\ todo'[Caller][1] = cur[Caller][1].Version
          /\ (pc[Caller] = "up" /\ pc'[Caller] = "up_save") =>
               trace'[Caller] =
                   Append(trace[Caller], Event("Up", todo[Caller][idx[Caller] + 1]))]_vars

\* The Save of the second unit of a call failed after its Up succeeded;
\* the table holds no record of it and the plan begins with it again.
C36_Witness ==
    /\ SaveFailedAfterUp
    /\ repoKind = "Mysql"
    /\ Len(ret[Caller]) = 2
    /\ RecordsOf(store, cur[Caller][1].Version) = <<>>
    /\ \A out \in PlansNow :
          out.plan # <<>> /\ NextToExecute(out.plan[1]) = <<cur[Caller][1].Version>>



\* MigrateUp(n) and then MigrateDown(n) returned, every action and every
\* store call having succeeded, on a history without an unfinished last
\* record and with n pending units or more.
RoundTripDone ==
    /\ op["c1"].name = "MigrateUp" /\ op["c2"].name = "MigrateDown"
    /\ pc["c1"] = "done" /\ pc["c2"] = "done"
    /\ op["c1"].numOfRuns = op["c2"].numOfRuns
    /\ failed["c1"] = {} /\ failed["c2"] = {}
    /\ err["c1"] = {} /\ err["c2"] = {}
    /\ ~HasUnfinishedTail(snap["c1"])
    /\ Cardinality(Pending(registry, snap["c1"])) >= op["c1"].numOfRuns

\* C37: MigrateUp(n) followed by MigrateDown(n), everything succeeding, on
\* a consistent history without an unfinished last record and with at
\* least n pending units: n Up actions ran, the n Down actions ran on the
\* same versions in the reverse order, and the store holds the records it
\* held before, no more and no less.
C37_UpDownRoundTrip ==
    RoundTripDone =>
        LET ups == Invoked(trace["c1"], "Up")
            downs == Invoked(trace["c2"], "Down")
        IN  /\ Len(ups) = op["c1"].numOfRuns
            /\ downs = Reverse(ups)
            /\ VersionsOf(snap["c2"]) = VersionsOf(snap["c1"]) \cup Range(ups)
            /\ SameRecords(store, snap["c1"])

\* Two units were run up and rolled back, above a record that stayed.
C37_Witness ==
    /\ RoundTripDone
    /\ op["c1"].numOfRuns = 2
    /\ Len(Invoked(trace["c2"], "Down")) = 2
    /\ store # <<>>
    /\ store = snap["c1"]



\* C38: building a plan changes nothing of what is persisted: NewPlan,
\* whether it returns a plan or an error, calls no Up, no Down, no Save and
\* no Remove, and the store holds afterwards the records it held before,
\* each as many times; the table is left as it was, and the slice of the
\* in-memory repository, which LoadExecutions hands out itself, is at most
\* put in the order of the versions.  The queries take the plan alone.
C38_NewPlanKeepsStore ==
    /\ [](Done("NewPlan") =>
             /\ trace[Caller] = <<>>
             /\ cur[Caller] = <<>>
             /\ SameRecords(store, snap[Caller])
             /\ repoKind = "Mysql" => store = snap[Caller]
             /\ (repoKind = "InMemory" /\ store # snap[Caller]) =>
                   /\ IsSortedByVersion(store)
                   /\ ~LoadFailed)
    /\ [][op'[Caller].name = "NewPlan" => SameRecords(store', store)]_vars

\* NewPlan failed on an in-memory history with an unfinished record that
\* was not the last: the slice was sorted and holds the same records.
C38_Witness ==
    /\ Done("NewPlan")
    /\ repoKind = "InMemory"
    /\ err[Caller] = {"multiple executions which are not finished"}
    /\ store # snap[Caller]
    /\ Len(store) = 3



\* The name is version_<number>.go.
IsVersionFileName(name) ==
    LET head == FileNamePrefix \o FileNameSeparator
        number == SubSeq(name, Len(head) + 1, Len(name) - Len(GoExtension))
    IN  /\ Len(name) > Len(head) + Len(GoExtension)
        /\ HasPrefix(name, head)
        /\ SubSeq(name, Len(name) - Len(GoExtension) + 1, Len(name)) = GoExtension
        /\ \A i \in 1..Len(number) : number[i] \in DOMAIN Digit

\* The version a file named version_<number>.go names.
NamedVersion(name) ==
    DigitsValue(SubSeq(name, Len(FileNamePrefix \o FileNameSeparator) + 1,
                       Len(name) - Len(GoExtension)))

\* The files of the directory that are named version_<number>.go.
VersionFiles ==
    {item \in Range(dirEntries) : ~IsDir(item) /\ IsVersionFileName(Name(item))}

FileVersions == {NamedVersion(Name(item)) : item \in VersionFiles}

\* The file name of a version.
FileNameOf(v) == FileNamePrefix \o FileNameSeparator \o Itoa(v) \o GoExtension

\* C39: HasAllMigrationsRegistered returns true exactly when the versions
\* named by the version_<number>.go files of the directory are the
\* registered versions; otherwise missing lists exactly the files whose
\* version is not registered and extra exactly the registered versions
\* without a file, and AssertValidRegistry panics.
C39_DirRegistryComparesSets ==
    /\ (Done("HasAllMigrationsRegistered") /\ err[Caller] = {}) =>
          /\ ret[Caller][1] <=> (FileVersions = registry)
          /\ Range(ret[Caller][2]) =
                {Name(item) : item \in
                    {f \in VersionFiles : NamedVersion(Name(f)) \notin registry}}
          /\ Range(ret[Caller][3]) =
                {FileNameOf(v) : v \in registry \ FileVersions}
    /\ (Done("AssertValidRegistry") /\ "ReadDir" \notin failed[Caller]) =>
          (err[Caller] # {} <=> FileVersions # registry)



\* C40: when NewNumOfRuns rejects the steps value given to the up or down
\* command, the command returns that error and nothing else happens:
\* MigrateUp / MigrateDown is not called, no call of a migration or of the
\* store is made, and the store stays as it was.
C40_InvalidStepsNoSideEffect ==
    /\ [](NewNumOfRuns(num).err # {} =>
            \A c \in SerialCallers :
                /\ pc[c] \in {"idle", "done"}
                /\ op[c].name \notin {"MigrateUp", "MigrateDown"}
                /\ trace[c] = <<>>
                /\ failed[c] = {}
                /\ pc[c] = "done" =>
                      /\ op[c].name \in {"up", "down"}
                      /\ err[c] = NewNumOfRuns(num).err
                      /\ ret[c] = <<>>
                      /\ store = snap[c])
    /\ [][NewNumOfRuns(num).err # {} => store' = store]_vars

\* An up command given a steps value that is not a number has returned,
\* with migrations waiting to be executed.
C40_Witness ==
    /\ NewNumOfRuns(num).err # {}
    /\ pc[Caller] = "done"
    /\ op[Caller].name = "up"
    /\ store # <<>>
    /\ \E v \in registry : \A i \in 1..Len(store) : store[i].Version # v

=============================================================================
